---- MODULE Spec2Model ----
(***************************************************************************)
(* Bond negotiation of node-zero's ChannelManager                          *)
(* (src/src/primitives/channel-manager.ts) as a state machine.             *)
(*                                                                         *)
(* Every ChannelManager is attached to one shared broadcast medium: a      *)
(* transmitted frame is handed to every other node on the bus.  Every      *)
(* `await` of initiate/accept after which the code reads or writes shared  *)
(* state (bonds, pendingResponses, the medium) is a position of the call;  *)
(* the awaits in between, which only compute on locals (exportPublicKey,   *)
(* sign, verify, deriveSharedSecret), are folded into the step after them. *)
(* Timestamps are not modelled: no operation modelled here reads them.     *)
(***************************************************************************)
EXTENDS Integers, Sequences, FiniteSets, Bags, TLC

VARIABLES
    bus,           \* nodes whose transport is configured and ChannelManager constructed
    calls,         \* the initiate()/accept() invocations and the position of each
    pending,       \* per node: ChannelManager.pendingResponses, key -> waiting call
    bonds,         \* per node: ChannelManager.bonds, NodeId -> NodeZeroBond
    interactions,  \* per node: ChannelManager.interactions, NodeId -> counters
    net,           \* frames in flight on the medium, one copy per receiving node
    sent,          \* history: every frame a call has handed to transport.transmit
    events,        \* per node: bag of the events emitted so far
    received,      \* per node: the messages handed to the receive listener, in order
    recalcs,       \* history: the updateCareScore calls made so far, in order
    codec,         \* the codec call under way: its argument, the buffer, the value parsed
    node,          \* NodeZero: its local bond store and its initiateBond calls
    decrypting,    \* handleBondData invocations waiting for aesGcmDecrypt
    faults         \* number of frames the medium has lost or corrupted so far

vars == <<bus, calls, pending, bonds, interactions, net, sent, events, received, recalcs, codec, node, decrypting, faults>>

\* ------------------------------------------------------------------ constants

BOND_CHALLENGE == 16
BOND_RESPONSE == 17
BOND_CONFIRM == 18
BOND_DATA == 19
MAX_BONDS_PER_CELL == 4

\* Lengths of the negotiation messages after the prefix byte, and of a key.
ChallengeLen == 167
ResponseLen == 199
ConfirmLen == 167
PubKeyLen == 33
\* The wire codec: packet type of a vault fragment, length of a state update
\* and of an ECDSA signature, header of a vault fragment.
PACKET_TYPE_VAULT == 3
StateLen == 105
SignatureLen == 64
VaultHeaderSize == 4
\* NodeZero.initiateBond: the largest number of bonds.
NodeMaxBonds == 4
\* Shortest BOND_DATA payload handleBondData looks at: nonce(12) and one byte.
MinDataLen == 13
\* Bytes a sealed message adds to the payload: nonce(12), header(6), GCM tag(16).
SealOverhead == 34

\* Care score in thousandths.
InitialScore == 500
ThresholdStrut == 200
ThresholdCoherent == 500
ThresholdResonant == 800
Hysteresis == 20
\* DEFAULT_DECAY_CONFIG.halfLifeDays
HalfLifeDays == 14
\* Divisor of the frequency component: 20 interactions a day over 7 days.
FrequencyWindow == 140
\* Interactions below which reciprocity takes its default.
ReciprocityMin == 3
\* Milliseconds in a minute, minutes after which responsiveness is 0.
MsPerMinute == 60000
ResponseLimit == 60

\* ------------------------------------------------------------------ bounds

\* Frames the medium may lose or corrupt in one behaviour.
MaxFaults == 1
\* Length a corrupted frame is cut to: the sender key survives, the rest does not.
CutLen == 100
\* Length of a frame cut below the sender key.
StubLen == 20
\* updateCareScore calls in one behaviour.
MaxRecalcs == 2

\* ------------------------------------------------------------------ identities

\* The identities on the bus; the public signing key of an identity is its name.
Ident == {"A", "B", "C"}
\* Peers the hub bonded with earlier and which have since left the bus.
Offline == <<"P1", "P2", "P3", "P4">>

PublicKey(n) == n
KeySequence(n) == 0
EcdhPublicKey(n) == <<"ecdh", n>>
GarbageKey == <<"ecdh", "garbage">>

\* deriveNodeId: base58(sha256(publicKey)), injective on the keys in use.
DeriveNodeId(pk) == <<"nid", pk>>

\* randomBytes(32): each call draws one nonce; distinct calls draw distinct ones.
RandomNonce(c) == c

\* ------------------------------------------------------------------ wire

\* Negotiation payloads by byte layout: pub(0..33) keySeq(33) ecdh(34..67)
\* n1(67..99) and, in a BondResponse only, n2(99..131); then the signature.
Payload103(n, n1) == <<PublicKey(n), KeySequence(n), EcdhPublicKey(n), n1>>
Payload135(n, n1, n2) == <<PublicKey(n), KeySequence(n), EcdhPublicKey(n), n1, n2>>

SenderKey(p) == p[1]
SenderKeySeq(p) == p[2]
SenderEcdh(p) == p[3]
NonceAt67(p) == p[4]
NonceAt99(p) == p[5]

\* identity.sign / identity.verify: ECDSA over the payload bytes (the prefix
\* byte is not signed).
Sign(n, payload) == [by |-> PublicKey(n), over |-> payload]

\* A verification that accepts every signature.
VerifyAlwaysTrue(payload, sig, pk) == TRUE

Verify(payload, sig, pk) == sig.by = pk /\ sig.over = payload

Frame(type, len, payload, sig) ==
    [type |-> type, len |-> len, payload |-> payload, sig |-> sig]

\* A comparison that finds any two byte strings equal.
ArrayEqualAlwaysTrue(a, b) == TRUE

ArrayEqual(a, b) == a = b

\* deriveSharedSecret: ECDH of the own private key with the peer's public key
\* (symmetric in the two key pairs), expanded with the salt.
DeriveSharedSecret(n, peerEcdh, salt) ==
    [ecdh |-> {EcdhPublicKey(n), peerEcdh}, salt |-> salt]

\* ------------------------------------------------------------------ bonds

\* Tiers by the bare thresholds, without the hysteresis band.
ScoreToTierNoBand(s, currentTier) ==
    IF s >= ThresholdResonant THEN "RESONANT"
    ELSE IF s >= ThresholdCoherent THEN "COHERENT"
    ELSE IF s >= ThresholdStrut THEN "STRUT"
    ELSE "GHOST"

\* Tiers with a band on the way up only: a tier is kept down to its threshold.
ScoreToTierPromoteBand(s, currentTier) ==
    IF (IF currentTier = "RESONANT" THEN s >= ThresholdResonant
                                    ELSE s >= ThresholdResonant + Hysteresis)
    THEN "RESONANT"
    ELSE IF (IF currentTier = "COHERENT"
             THEN s >= ThresholdCoherent /\ s < ThresholdResonant + Hysteresis
             ELSE s >= ThresholdCoherent + Hysteresis)
    THEN "COHERENT"
    ELSE IF (IF currentTier = "STRUT" THEN s >= ThresholdStrut
                                      ELSE s >= ThresholdStrut + Hysteresis)
    THEN "STRUT"
    ELSE "GHOST"

\* Tiers that never move once a bond has one.
ScoreToTierSticky(s, currentTier) ==
    IF currentTier \in {"GHOST", "STRUT", "COHERENT", "RESONANT"}
    THEN currentTier
    ELSE ScoreToTierNoBand(s, currentTier)

\* A mapping that moves no more than one tier in a call.
ScoreToTierOneStep(s, currentTier) ==
    LET order == <<"GHOST", "STRUT", "COHERENT", "RESONANT">>
        rank(t) == CHOOSE i \in 1..4 : order[i] = t
        target == ScoreToTierNoBand(s, currentTier)
    IN  IF currentTier \notin {"GHOST", "STRUT", "COHERENT", "RESONANT"} THEN target
        ELSE IF rank(target) > rank(currentTier) + 1 THEN order[rank(currentTier) + 1]
        ELSE IF rank(target) < rank(currentTier) - 1 THEN order[rank(currentTier) - 1]
        ELSE target

ScoreToTier(s, currentTier) ==
    IF (IF currentTier = "RESONANT" THEN s >= ThresholdResonant - Hysteresis
                                    ELSE s >= ThresholdResonant + Hysteresis)
    THEN "RESONANT"
    ELSE IF (IF currentTier = "COHERENT"
             THEN s >= ThresholdCoherent - Hysteresis /\ s < ThresholdResonant + Hysteresis
             ELSE s >= ThresholdCoherent + Hysteresis)
    THEN "COHERENT"
    ELSE IF (IF currentTier = "STRUT" THEN s >= ThresholdStrut - Hysteresis
                                      ELSE s >= ThresholdStrut + Hysteresis)
    THEN "STRUT"
    ELSE "GHOST"

NewBond(peerId, peerKey, peerKeySeq, secret) ==
    [partner |-> [nodeId |-> peerId, publicKey |-> peerKey, keySequence |-> peerKeySeq],
     trust |-> [careScore |-> InitialScore,
                components |-> [frequency |-> 500, reciprocity |-> 500,
                                consistency |-> 1000, responsiveness |-> 1000],
                tier |-> ScoreToTier(InitialScore, "undefined")],
     channel |-> [sharedSecret |-> secret, totalExchanges |-> 0, status |-> "ACTIVE"]]

NewInteraction ==
    [sentCount |-> 0, recvCount |-> 0, dailyCounts |-> <<>>,
     responseTimesMs |-> <<>>, lastMessageSentAt |-> 0]

GetActiveBondCount(n) ==
    Cardinality({p \in DOMAIN bonds[n] : bonds[n][p].channel.status = "ACTIVE"})

\* A check that lets a fifth bond through.
TopologyFullOffByOne(n) == GetActiveBondCount(n) > MAX_BONDS_PER_CELL

TopologyFull(n) == GetActiveBondCount(n) >= MAX_BONDS_PER_CELL

Emit(n, e) == events' = [events EXCEPT ![n] = @ (+) SetToBag({e})]

CreateBondRecord(n, peerId, peerKey, peerKeySeq, secret) ==
    /\ bonds' = [bonds EXCEPT ![n] =
                    (peerId :> NewBond(peerId, peerKey, peerKeySeq, secret)) @@ @]
    /\ interactions' = [interactions EXCEPT ![n] = (peerId :> NewInteraction) @@ @]
    /\ Emit(n, [type |-> "BOND_FORMED", peer |-> peerId])

\* ------------------------------------------------------------------ care score

\* A score is an exact fraction [n, d] in lowest terms; a stored score is the
\* fraction cut to thousandths.  A comparison with a threshold, itself a whole
\* number of thousandths, gives the same answer on the cut score as on the
\* fraction.  Binary rounding of the decimal constants is not modelled.
RECURSIVE GCD(_, _)
GCD(a, b) == IF b = 0 THEN a ELSE GCD(b, a % b)

Frac(n, d) ==
    LET g == GCD(IF n < 0 THEN -n ELSE n, d)
    IN  [n |-> n \div g, d |-> d \div g]

Zero == [n |-> 0, d |-> 1]

One == [n |-> 1, d |-> 1]

FAdd(x, y) == Frac(x.n * y.d + y.n * x.d, x.d * y.d)

FSub(x, y) == Frac(x.n * y.d - y.n * x.d, x.d * y.d)

FMul(x, y) == Frac(x.n * y.n, x.d * y.d)

FLess(x, y) == x.n * y.d < y.n * x.d

\* The fraction cut to thousandths, digit by digit.
Thousandths(x) ==
    LET r0 == x.n % x.d
        r1 == (10 * r0) % x.d
        r2 == (10 * r1) % x.d
    IN  1000 * (x.n \div x.d) + 100 * ((10 * r0) \div x.d)
          + 10 * ((10 * r1) \div x.d) + (10 * r2) \div x.d

\* A minimum that forgets its bound.
MathMinSecond(x, y) == y

MathMin(x, y) == IF FLess(y, x) THEN y ELSE x

MathMax(x, y) == IF FLess(x, y) THEN y ELSE x

IntMin(a, b) == IF b < a THEN b ELSE a

IntMax(a, b) == IF a < b THEN b ELSE a

RECURSIVE Sum(_)
Sum(seq) == IF seq = <<>> THEN 0 ELSE Head(seq) + Sum(Tail(seq))

RECURSIVE SumSquares(_, _)
SumSquares(seq, mean) ==
    IF seq = <<>> THEN Zero
    ELSE LET dev == FSub(Frac(Head(seq), 1), mean)
         IN  FAdd(FMul(dev, dev), SumSquares(Tail(seq), mean))

\* Math.sqrt, to the thousandth.
Sqrt(x) ==
    LET k == (1000000 * x.n) \div x.d
    IN  Frac(CHOOSE r \in 0..k : r * r <= k /\ (r + 1) * (r + 1) > k, 1000)

Frequency(total) == MathMin(One, Frac(total, FrequencyWindow))

\* A reciprocity with no default for a bond that has hardly been used.
ReciprocityNoDefault(sentCount, recvCount) ==
    MathMin(One, Frac(IntMin(sentCount, recvCount),
                      IntMax(1, IntMax(sentCount, recvCount))))

Reciprocity(sentCount, recvCount) ==
    IF sentCount + recvCount < ReciprocityMin
    THEN Frac(1, 2)
    ELSE MathMin(One, Frac(IntMin(sentCount, recvCount),
                           IntMax(1, IntMax(sentCount, recvCount))))

Consistency(dailyCounts) ==
    IF Len(dailyCounts) > 1
    THEN LET mean == Frac(Sum(dailyCounts), Len(dailyCounts))
             variance == FMul(SumSquares(dailyCounts, mean), Frac(1, Len(dailyCounts)))
             stddev == Sqrt(variance)
             ratio == FMul(stddev, [n |-> FAdd(mean, Frac(1, 10)).d,
                                    d |-> FAdd(mean, Frac(1, 10)).n])
         IN  [n |-> FAdd(One, ratio).d, d |-> FAdd(One, ratio).n]
    ELSE One

Responsiveness(avgResponseTime) ==
    MathMax(Zero, MathMin(One, FMul(FSub(Frac(ResponseLimit, 1), avgResponseTime),
                                    Frac(1, ResponseLimit))))

\* The average response time in minutes, 0 with no sample.
AvgResponseMinutes(tracking) ==
    IF Len(tracking.responseTimesMs) > 0
    THEN Frac(Sum(tracking.responseTimesMs), Len(tracking.responseTimesMs) * MsPerMinute)
    ELSE Zero

\* dailyCounts as updateCareScore passes it on.
DailyCounts(tracking) ==
    IF Len(tracking.dailyCounts) > 0
    THEN tracking.dailyCounts
    ELSE <<tracking.sentCount + tracking.recvCount>>

RecalculateCareScore(sentCount, recvCount, dailyCounts, avgResponseTime) ==
    LET composite ==
            FAdd(FAdd(FMul(Frac(3, 10), Frequency(sentCount + recvCount)),
                      FMul(Frac(3, 10), Reciprocity(sentCount, recvCount))),
                 FAdd(FMul(Frac(2, 10), Consistency(dailyCounts)),
                      FMul(Frac(2, 10), Responsiveness(avgResponseTime))))
    IN  MathMax(Zero, MathMin(One, composite))

\* The elapsed-days arguments a caller passes.
Days == {0, 1, 2, 14, 21, 60}

\* Math.exp(-(Math.LN2 / HalfLifeDays) * days), in thousandths, for the days
\* passed; whole half-lives are exact.
DecayFactor(days) ==
    IF days % HalfLifeDays = 0
    THEN Frac(1, 2 ^ (days \div HalfLifeDays))
    ELSE Frac(CASE days = 1 -> 952 [] days = 2 -> 906 [] days = 3 -> 862
                [] days = 7 -> 707 [] days = 21 -> 354 [] days = 60 -> 51, 1000)

\* A decay that leaves the score as it is.
ApplyDecayNone(score, days) == score

ApplyDecay(score, days) == MathMax(Zero, FMul(score, DecayFactor(days)))

\* The events of one recalculation that always include a tier change.
CareEventsAlwaysBoth(peerId, score, previousTier, newTier) ==
    SetToBag({[type |-> "CARE_SCORE_UPDATED", peer |-> peerId, score |-> score],
              [type |-> "BOND_TRUST_CHANGED", peer |-> peerId,
               previousTier |-> previousTier, currentTier |-> newTier,
               careScore |-> score]})

\* The events updateCareScore emits.
CareEvents(peerId, score, previousTier, newTier) ==
    SetToBag({[type |-> "CARE_SCORE_UPDATED", peer |-> peerId, score |-> score]})
    (+) (IF newTier # previousTier
         THEN SetToBag({[type |-> "BOND_TRUST_CHANGED", peer |-> peerId,
                         previousTier |-> previousTier, currentTier |-> newTier,
                         careScore |-> score]})
         ELSE EmptyBag)

\* One entry of the history of updateCareScore calls.
Recalc(n, peerId, days, outcome, tracking, rawScore, score, previousTier, tier) ==
    [node |-> n, peerId |-> peerId, days |-> days, outcome |-> outcome,
     sentCount |-> tracking.sentCount, recvCount |-> tracking.recvCount,
     responseTimesMs |-> tracking.responseTimesMs,
     rawScore |-> rawScore, score |-> score,
     previousTier |-> previousTier, tier |-> tier]

\* updateCareScore(peerId, daysSinceLastInteraction): synchronous.
UpdateCareScore(n, peerId, days) ==
    /\ Len(recalcs) < MaxRecalcs
    /\ IF peerId \notin DOMAIN bonds[n]
       THEN /\ recalcs' = Append(recalcs, Recalc(n, peerId, days, "BOND_NOT_FOUND",
                                                 NewInteraction, 0, 0, "none", "none"))
            /\ UNCHANGED <<bonds, events>>
       ELSE IF peerId \notin DOMAIN interactions[n]
       THEN /\ recalcs' = Append(recalcs, Recalc(n, peerId, days, "returned",
                                                 NewInteraction, 0, 0, "none", "none"))
            /\ UNCHANGED <<bonds, events>>
       ELSE LET bond == bonds[n][peerId]
                tracking == interactions[n][peerId]
                avgResponseMinutes == AvgResponseMinutes(tracking)
                rawScore == RecalculateCareScore(tracking.sentCount, tracking.recvCount,
                                                 DailyCounts(tracking), avgResponseMinutes)
                decayedScore == IF days > 0 THEN ApplyDecay(rawScore, days) ELSE rawScore
                previousTier == bond.trust.tier
                newTier == ScoreToTier(Thousandths(decayedScore), previousTier)
                components ==
                    [frequency |-> Thousandths(Frequency(tracking.sentCount + tracking.recvCount)),
                     reciprocity |-> Thousandths(Reciprocity(tracking.sentCount, tracking.recvCount)),
                     consistency |-> Thousandths(Consistency(DailyCounts(tracking))),
                     responsiveness |-> Thousandths(Responsiveness(avgResponseMinutes))]
            IN  /\ bonds' = [bonds EXCEPT ![n][peerId].trust =
                               [careScore |-> Thousandths(decayedScore),
                                components |-> components,
                                tier |-> newTier]]
                /\ events' = [events EXCEPT ![n] =
                               @ (+) CareEvents(peerId, Thousandths(decayedScore),
                                                previousTier, newTier)]
                /\ recalcs' = Append(recalcs,
                                  Recalc(n, peerId, days, "ok", tracking,
                                         Thousandths(rawScore), Thousandths(decayedScore),
                                         previousTier, newTier))
    /\ UNCHANGED <<bus, calls, pending, interactions, net, sent, received, codec, node, decrypting, faults>>

\* ------------------------------------------------------------------ wire codec

\* Bitwise operators on naturals.
RECURSIVE BitOr(_, _)
BitOr(a, b) ==
    IF a = 0 THEN b ELSE IF b = 0 THEN a
    ELSE (IF a % 2 = 1 \/ b % 2 = 1 THEN 1 ELSE 0) + 2 * BitOr(a \div 2, b \div 2)

RECURSIVE BitAnd(_, _)
BitAnd(a, b) ==
    IF a = 0 \/ b = 0 THEN 0
    ELSE (IF a % 2 = 1 /\ b % 2 = 1 THEN 1 ELSE 0) + 2 * BitAnd(a \div 2, b \div 2)

\* A store into a Uint8Array keeps the low 8 bits.
ToUint8(x) == x % 256

\* A timestamp is a number of 32 bits, held as two halves of 16: the value is
\* hi * 65536 + lo, and hi is negative for a negative number.
Num(hi, lo) == [hi |-> hi, lo |-> lo]

\* (ts >>> shift) & 0xff for shift 24, 16, 8, 0 on an unsigned 32-bit ts.
ByteOf(ts, shift) ==
    CASE shift = 24 -> BitAnd(ts.hi \div 256, 255)
      [] shift = 16 -> BitAnd(ts.hi, 255)
      [] shift = 8 -> BitAnd(ts.lo \div 256, 255)
      [] shift = 0 -> BitAnd(ts.lo, 255)

\* (b0 << 24) | (b1 << 16) | (b2 << 8) | b3: << and | work on signed 32-bit
\* integers, so bit 31 is the sign.
Int32FromBytes(b0, b1, b2, b3) ==
    LET hi == BitOr(b0 * 256, b1)
    IN  Num(IF hi >= 32768 THEN hi - 65536 ELSE hi, BitOr(b2 * 256, b3))

SerializeStateUpdate(message) ==
    message.identity.publicKey
    \o <<ToUint8(message.identity.keySequence)>>
    \o <<ToUint8(message.stateData.urgency), ToUint8(message.stateData.emotional),
         ToUint8(message.stateData.cognitive)>>
    \o <<ByteOf(message.stateData.timestamp, 24), ByteOf(message.stateData.timestamp, 16),
         ByteOf(message.stateData.timestamp, 8), ByteOf(message.stateData.timestamp, 0)>>
    \o message.signature

\* deserializeStateUpdate: "error" stands for the throw on a wrong length.
DeserializeStateUpdate(buffer) ==
    IF Len(buffer) # StateLen THEN "error"
    ELSE [identity |-> [publicKey |-> SubSeq(buffer, 1, PubKeyLen),
                        keySequence |-> buffer[PubKeyLen + 1]],
          stateData |-> [urgency |-> buffer[PubKeyLen + 2],
                         emotional |-> buffer[PubKeyLen + 3],
                         cognitive |-> buffer[PubKeyLen + 4],
                         timestamp |-> Int32FromBytes(buffer[PubKeyLen + 5], buffer[PubKeyLen + 6],
                                                      buffer[PubKeyLen + 7], buffer[PubKeyLen + 8])],
          signature |-> SubSeq(buffer, PubKeyLen + 9, PubKeyLen + 8 + SignatureLen)]

\* A fragment header that keeps only the low half of each sequence number.
SerializeVaultFragmentLowHalves(fragment) ==
    <<ToUint8(fragment.packetType), ToUint8(fragment.layerIndex),
      ToUint8(BitOr(fragment.sequence.current * 16, BitAnd(fragment.sequence.total, 15))),
      0>>
    \o fragment.payload

SerializeVaultFragment(fragment) ==
    <<ToUint8(fragment.packetType), ToUint8(fragment.layerIndex),
      ToUint8(BitOr(fragment.sequence.current * 16, BitAnd(fragment.sequence.total, 15))),
      ToUint8(BitOr(BitAnd(fragment.sequence.current \div 16, 15),
                    (fragment.sequence.total \div 16) * 16))>>
    \o fragment.payload

DeserializeVaultFragment(buffer) ==
    IF Len(buffer) < VaultHeaderSize THEN "error"
    ELSE [packetType |-> buffer[1],
          layerIndex |-> buffer[2],
          sequence |-> [current |-> BitOr(buffer[3] \div 16, BitAnd(buffer[4], 15) * 16),
                        total |-> BitOr(BitAnd(buffer[3], 15), (buffer[4] \div 16) * 16)],
          payload |-> SubSeq(buffer, VaultHeaderSize + 1, Len(buffer))]

\* No codec call has been made.
NoCodec == [kind |-> "none", pc |-> "idle", input |-> "none", buffer |-> <<>>, output |-> "none"]

\* A caller serializes its argument ...
Serialize ==
    /\ codec.kind \in {"state", "vault"} /\ codec.pc = "idle"
    /\ codec' = [codec EXCEPT
                   !.pc = "serialized",
                   !.buffer = IF codec.kind = "state"
                              THEN SerializeStateUpdate(codec.input)
                              ELSE SerializeVaultFragment(codec.input)]
    /\ UNCHANGED <<bus, calls, pending, bonds, interactions, net, sent, events,
                   received, recalcs, node, decrypting, faults>>

\* ... and the receiver of the buffer parses it.
Deserialize ==
    /\ codec.pc = "serialized"
    /\ codec' = [codec EXCEPT
                   !.pc = "parsed",
                   !.output = IF codec.kind = "state"
                              THEN DeserializeStateUpdate(codec.buffer)
                              ELSE DeserializeVaultFragment(codec.buffer)]
    /\ UNCHANGED <<bus, calls, pending, bonds, interactions, net, sent, events,
                   received, recalcs, node, decrypting, faults>>

\* ------------------------------------------------------------------ NodeZero

\* The peers the node's transport has discovered: the node's own
\* announcement, one truncated announcement, and five others.
Self == "N"

Truncated == "P0"

Discovered == {Self, Truncated, "P1", "P2", "P3", "P4", "P5"}

\* peer.publicKey.length
KeyLen(p) == IF p = Truncated THEN PubKeyLen - 1 ELSE PubKeyLen

\* The bond initiateBond stores.
LocalBond(p) ==
    [peerId |-> DeriveNodeId(PublicKey(p)),
     peerPublicKey |-> PublicKey(p),
     sharedSecret |-> [ecdh |-> {Self, p}, salt |-> "node-zero-bond-v1"],
     status |-> "ACTIVE",
     trustTier |-> "STRUT",
     careScore |-> InitialScore,
     totalExchanges |-> 0]

\* No NodeZero has booted.
NoNode == [bonds |-> [x \in {} |-> 0], flights |-> [x \in {} |-> 0]]

\* A booted NodeZero: no bond, no initiateBond call made.
BootedNode == [bonds |-> [x \in {} |-> 0], flights |-> [p \in Discovered |-> "idle"]]

\* initiateBond(peer) up to its first await (deriveNodeId).
InitiateBond(p) ==
    /\ p \in DOMAIN node.flights /\ node.flights[p] = "idle"
    /\ node' = [node EXCEPT !.flights[p] =
                   IF KeyLen(p) < PubKeyLen THEN "null" ELSE "derive"]
    /\ UNCHANGED <<bus, calls, pending, bonds, interactions, net, sent, events,
                   received, recalcs, codec, decrypting, faults>>

\* ... from there to the second await (deriveSharedSecret): the checks for
\* self, for a bond already held, and for the K4 limit.
InitiateBondCheck(p) ==
    /\ p \in DOMAIN node.flights /\ node.flights[p] = "derive"
    /\ node' = [node EXCEPT !.flights[p] =
                   IF p = Self THEN "null"
                   ELSE IF DeriveNodeId(PublicKey(p)) \in DOMAIN node.bonds THEN "existing"
                   ELSE IF Cardinality(DOMAIN node.bonds) >= NodeMaxBonds THEN "null"
                   ELSE "ecdh"]
    /\ UNCHANGED <<bus, calls, pending, bonds, interactions, net, sent, events,
                   received, recalcs, codec, decrypting, faults>>

\* ... and from there to the end: the bond is stored and returned.
InitiateBondStore(p) ==
    /\ p \in DOMAIN node.flights /\ node.flights[p] = "ecdh"
    /\ node' = [node EXCEPT
                   !.flights[p] = "bond",
                   !.bonds = [q \in DOMAIN @ \cup {DeriveNodeId(PublicKey(p))} |->
                                 IF q = DeriveNodeId(PublicKey(p)) THEN LocalBond(p) ELSE @[q]]]
    /\ UNCHANGED <<bus, calls, pending, bonds, interactions, net, sent, events,
                   received, recalcs, codec, decrypting, faults>>

\* closeBond(peerId)
CloseBond(p) ==
    /\ DeriveNodeId(PublicKey(p)) \in DOMAIN node.bonds
    /\ node' = [node EXCEPT !.bonds = [q \in DOMAIN @ \ {DeriveNodeId(PublicKey(p))} |-> @[q]]]
    /\ UNCHANGED <<bus, calls, pending, bonds, interactions, net, sent, events,
                   received, recalcs, codec, decrypting, faults>>

\* ------------------------------------------------------------------ helpers

Calls == DOMAIN calls

Fail(c, code) == calls' = [calls EXCEPT ![c].pc = "failed", ![c].err = code]

Goto(c, pc) == calls' = [calls EXCEPT ![c].pc = pc]

PeerId(c) == DeriveNodeId(calls[c].peer)

\* transport.transmit on the broadcast medium: one copy per other node.
Transmit(c, f) ==
    /\ net' = net \cup {[frame |-> f, dst |-> m] : m \in bus \ {calls[c].node}}
    /\ sent' = sent \cup {[by |-> c, frame |-> f]}

\* A key that does not tell the message types apart.
WaitKeyAnyType(peerNodeId, messageType) == <<peerNodeId, 0>>

\* The pendingResponses key `${peerNodeId}:${messageType}`.
WaitKey(peerNodeId, messageType) == <<peerNodeId, messageType>>

\* waitForMessage: pendingResponses.set(key, ...) and arm the timer.
WaitForMessage(c, messageType) ==
    pending' = [pending EXCEPT ![calls[c].node] =
                   (WaitKey(PeerId(c), messageType) :> c) @@ @]

Without(f, k) == [x \in (DOMAIN f) \ {k} |-> f[x]]

WaitingPcs == {"i_wait_response", "a_wait_challenge", "a_wait_confirm"}

ExpectedType(pc) ==
    CASE pc = "i_wait_response" -> BOND_RESPONSE
      [] pc = "a_wait_challenge" -> BOND_CHALLENGE
      [] pc = "a_wait_confirm" -> BOND_CONFIRM

\* ------------------------------------------------------------------ initiate

\* initiate(), lines 115-121: the topology check at call time.
Initiate(c) ==
    /\ calls[c].kind = "initiate" /\ calls[c].pc = "idle"
    /\ IF TopologyFull(calls[c].node)
       THEN Fail(c, "TOPOLOGY_VIOLATION")
       ELSE Goto(c, "i_derive")
    /\ UNCHANGED <<bus, received, recalcs, codec, node, decrypting, pending, bonds, interactions, net, sent, events, faults>>

\* initiate(), lines 123-130: after `await deriveNodeId`, the duplicate check.
InitiateCheckBonded(c) ==
    /\ calls[c].pc = "i_derive"
    /\ IF PeerId(c) \in DOMAIN bonds[calls[c].node]
       THEN Fail(c, "ALREADY_BONDED")
       ELSE Goto(c, "i_sign")
    /\ UNCHANGED <<bus, received, recalcs, codec, node, decrypting, pending, bonds, interactions, net, sent, events, faults>>

ChallengeFrame(c) ==
    LET p == Payload103(calls[c].node, RandomNonce(c))
    IN  Frame(BOND_CHALLENGE, ChallengeLen, p, Sign(calls[c].node, p))

\* initiate(), lines 132-156: build, sign and transmit the BondChallenge.
InitiateSendChallenge(c) ==
    /\ calls[c].pc = "i_sign"
    /\ Transmit(c, ChallengeFrame(c))
    /\ Goto(c, "i_sent")
    /\ UNCHANGED <<bus, received, recalcs, codec, node, decrypting, pending, bonds, interactions, events, faults>>

\* initiate(), lines 158-162: after `await transmit`, register the wait.
InitiateAwaitResponse(c) ==
    /\ calls[c].pc = "i_sent"
    /\ WaitForMessage(c, BOND_RESPONSE)
    /\ Goto(c, "i_wait_response")
    /\ UNCHANGED <<bus, received, recalcs, codec, node, decrypting, bonds, interactions, net, sent, events, faults>>

ConfirmFrame(c, responderNonce) ==
    LET p == Payload103(calls[c].node, responderNonce)
    IN  Frame(BOND_CONFIRM, ConfirmLen, p, Sign(calls[c].node, p))

\* initiate(), lines 164-216: parse and check the BondResponse, send BondConfirm.
InitiateOnResponse(c) ==
    /\ calls[c].pc = "i_got_response"
    /\ LET raw == calls[c].rx[1]
       IN  IF raw.len < ResponseLen
           THEN Fail(c, "NEGOTIATION_FAILED") /\ UNCHANGED <<net, sent>>
           ELSE IF ~ArrayEqual(NonceAt99(raw.payload), RandomNonce(c))
           THEN Fail(c, "VERIFICATION_FAILED") /\ UNCHANGED <<net, sent>>
           ELSE IF ~Verify(raw.payload, raw.sig, SenderKey(raw.payload))
           THEN Fail(c, "VERIFICATION_FAILED") /\ UNCHANGED <<net, sent>>
           ELSE /\ Transmit(c, ConfirmFrame(c, NonceAt67(raw.payload)))
                /\ Goto(c, "i_confirm_sent")
    /\ UNCHANGED <<bus, received, recalcs, codec, node, decrypting, pending, bonds, interactions, events, faults>>

\* initiate(), lines 218-239: key agreement and createBondRecord.
InitiateCreateBond(c) ==
    /\ calls[c].pc = "i_confirm_sent"
    /\ LET raw == calls[c].rx[1]
           n == calls[c].node
       IN  CreateBondRecord(n, PeerId(c), calls[c].peer, SenderKeySeq(raw.payload),
               DeriveSharedSecret(n, SenderEcdh(raw.payload),
                                  <<RandomNonce(c), NonceAt67(raw.payload)>>))
    /\ Goto(c, "done")
    /\ UNCHANGED <<bus, received, recalcs, codec, node, decrypting, pending, net, sent, faults>>

\* ------------------------------------------------------------------ accept

\* accept(), lines 242-248: the topology check at call time.
Accept(c) ==
    /\ calls[c].kind = "accept" /\ calls[c].pc = "idle"
    /\ IF TopologyFull(calls[c].node)
       THEN Fail(c, "TOPOLOGY_VIOLATION")
       ELSE Goto(c, "a_derive")
    /\ UNCHANGED <<bus, received, recalcs, codec, node, decrypting, pending, bonds, interactions, net, sent, events, faults>>

\* accept(), lines 250-263: after `await deriveNodeId`, the duplicate check,
\* then the wait for the BondChallenge is registered.
AcceptAwaitChallenge(c) ==
    /\ calls[c].pc = "a_derive"
    /\ IF PeerId(c) \in DOMAIN bonds[calls[c].node]
       THEN Fail(c, "ALREADY_BONDED") /\ UNCHANGED pending
       ELSE WaitForMessage(c, BOND_CHALLENGE) /\ Goto(c, "a_wait_challenge")
    /\ UNCHANGED <<bus, received, recalcs, codec, node, decrypting, bonds, interactions, net, sent, events, faults>>

ResponseFrame(c, initiatorNonce) ==
    LET p == Payload135(calls[c].node, RandomNonce(c), initiatorNonce)
    IN  Frame(BOND_RESPONSE, ResponseLen, p, Sign(calls[c].node, p))

\* accept(), lines 265-316: parse and verify the BondChallenge, send BondResponse.
AcceptOnChallenge(c) ==
    /\ calls[c].pc = "a_got_challenge"
    /\ LET raw == calls[c].rx[1]
       IN  IF raw.len < ChallengeLen
           THEN Fail(c, "NEGOTIATION_FAILED") /\ UNCHANGED <<net, sent>>
           ELSE IF ~Verify(raw.payload, raw.sig, SenderKey(raw.payload))
           THEN Fail(c, "VERIFICATION_FAILED") /\ UNCHANGED <<net, sent>>
           ELSE /\ Transmit(c, ResponseFrame(c, NonceAt67(raw.payload)))
                /\ Goto(c, "a_response_sent")
    /\ UNCHANGED <<bus, received, recalcs, codec, node, decrypting, pending, bonds, interactions, events, faults>>

\* accept(), lines 318-322: after `await transmit`, register the wait.
AcceptAwaitConfirm(c) ==
    /\ calls[c].pc = "a_response_sent"
    /\ WaitForMessage(c, BOND_CONFIRM)
    /\ Goto(c, "a_wait_confirm")
    /\ UNCHANGED <<bus, received, recalcs, codec, node, decrypting, bonds, interactions, net, sent, events, faults>>

\* An accept() that stores the bond record before it checks the BondConfirm.
AcceptOnConfirmEager(c) ==
    /\ calls[c].pc = "a_got_confirm"
    /\ LET challenge == calls[c].rx[1]
           raw == calls[c].rx[2]
           n == calls[c].node
       IN  /\ CreateBondRecord(n, PeerId(c), calls[c].peer,
                   SenderKeySeq(challenge.payload),
                   DeriveSharedSecret(n, SenderEcdh(challenge.payload),
                       <<NonceAt67(challenge.payload), RandomNonce(c)>>))
           /\ IF raw.len < ConfirmLen
              THEN Fail(c, "NEGOTIATION_FAILED")
              ELSE IF ~ArrayEqual(NonceAt67(raw.payload), RandomNonce(c))
              THEN Fail(c, "VERIFICATION_FAILED")
              ELSE IF ~Verify(raw.payload, raw.sig, SenderKey(raw.payload))
              THEN Fail(c, "VERIFICATION_FAILED")
              ELSE Goto(c, "done")
    /\ UNCHANGED <<bus, received, recalcs, codec, node, decrypting, pending, net, sent, faults>>

\* accept(), lines 324-377: parse and check the BondConfirm, key agreement,
\* createBondRecord.
AcceptOnConfirm(c) ==
    /\ calls[c].pc = "a_got_confirm"
    /\ LET challenge == calls[c].rx[1]
           raw == calls[c].rx[2]
           n == calls[c].node
       IN  IF raw.len < ConfirmLen
           THEN Fail(c, "NEGOTIATION_FAILED") /\ UNCHANGED <<bonds, interactions, events>>
           ELSE IF ~ArrayEqual(NonceAt67(raw.payload), RandomNonce(c))
           THEN Fail(c, "VERIFICATION_FAILED") /\ UNCHANGED <<bonds, interactions, events>>
           ELSE IF ~Verify(raw.payload, raw.sig, SenderKey(raw.payload))
           THEN Fail(c, "VERIFICATION_FAILED") /\ UNCHANGED <<bonds, interactions, events>>
           ELSE /\ CreateBondRecord(n, PeerId(c), calls[c].peer,
                       SenderKeySeq(challenge.payload),
                       DeriveSharedSecret(n, SenderEcdh(challenge.payload),
                           <<NonceAt67(challenge.payload), RandomNonce(c)>>))
                /\ Goto(c, "done")
    /\ UNCHANGED <<bus, received, recalcs, codec, node, decrypting, pending, net, sent, faults>>

\* ------------------------------------------------------------------ dispatch

GotPc(pc) ==
    CASE pc = "i_wait_response" -> "i_got_response"
      [] pc = "a_wait_challenge" -> "a_got_challenge"
      [] pc = "a_wait_confirm" -> "a_got_confirm"

\* handleNegotiationMessage: the wait registered under (sender, prefix), if any,
\* is removed, its timer cleared and its promise resolved with the payload;
\* a frame nobody waits for is dropped.
HandleNegotiationMessage(m, f) ==
    IF f.len < PubKeyLen
    THEN UNCHANGED <<calls, pending>>
    ELSE LET key == WaitKey(DeriveNodeId(SenderKey(f.payload)), f.type)
         IN  IF key \in DOMAIN pending[m]
             THEN LET c == pending[m][key]
                  IN  /\ pending' = [pending EXCEPT ![m] = Without(@, key)]
                      /\ calls' = [calls EXCEPT ![c].pc = GotPc(@),
                                                ![c].rx = Append(@, f)]
             ELSE UNCHANGED <<calls, pending>>

\* encodeMessageType / decodeMessageType.
EncodeMessageType(type) ==
    CASE type = "STATE_UPDATE" -> 1
      [] type = "VAULT_REQUEST" -> 2
      [] type = "VAULT_GRANT" -> 3
      [] type = "VAULT_FRAGMENT" -> 4
      [] type = "PING" -> 5
      [] type = "CUSTOM" -> 6

DecodeMessageType(code) ==
    CASE code = 1 -> "STATE_UPDATE"
      [] code = 2 -> "VAULT_REQUEST"
      [] code = 3 -> "VAULT_GRANT"
      [] code = 4 -> "VAULT_FRAGMENT"
      [] code = 5 -> "PING"
      [] OTHER -> "CUSTOM"

\* send(): type(1) + timestamp(4) + senderIdLen(1) + senderId + payload.
Wire(message) ==
    [typeCode |-> EncodeMessageType(message.type),
     senderId |-> message.senderId,
     payload |-> message.payload]

\* aesGcmEncrypt under a fresh 12-byte nonce; aesGcmDecrypt succeeds with the
\* key the message was sealed with and throws with any other.
AesGcmEncrypt(secret, wire, nonce) == [key |-> secret, nonce |-> nonce, wire |-> wire]

AesGcmDecrypts(secret, sealed) == sealed.key = secret

\* Milliseconds between a send and the next message received: at once, two hours.
ResponseTimes == {0, 7200000}

\* An updateBondChannel that also puts the care score back to its initial value.
UpdateBondChannelResetsTrust(n, peerId, exchangesDelta) ==
    IF peerId \in DOMAIN bonds[n]
    THEN [bonds EXCEPT ![n][peerId].channel.totalExchanges = @ + exchangesDelta,
                       ![n][peerId].trust.careScore = InitialScore]
    ELSE bonds

\* An updateBondChannel that does not count the exchange.
UpdateBondChannelNoCount(n, peerId, exchangesDelta) == bonds

\* updateBondChannel: nothing happens when the record is gone.
UpdateBondChannel(n, peerId, exchangesDelta) ==
    IF peerId \in DOMAIN bonds[n]
    THEN [bonds EXCEPT ![n][peerId].channel.totalExchanges = @ + exchangesDelta]
    ELSE bonds

\* handleBondData up to `await aesGcmDecrypt` on the first ACTIVE bond whose
\* secret opens the frame: the peer and the secret are those read from the
\* bond map at this point.  (The decryptions that throw, under the secrets of
\* other bonds, change nothing and are passed over.)  A frame that is too
\* short, or that no bond opens, is dropped.
HandleBondData(m, f) ==
    LET sealed == f.payload[1]
        opens == {p \in DOMAIN bonds[m] :
                     /\ bonds[m][p].channel.status = "ACTIVE"
                     /\ AesGcmDecrypts(bonds[m][p].channel.sharedSecret, sealed)}
    IN  IF f.len < MinDataLen \/ opens = {}
        THEN UNCHANGED decrypting
        ELSE LET peerId == CHOOSE p \in opens : TRUE
             IN  decrypting' = decrypting \cup
                     {[node |-> m, peerId |-> peerId,
                       secret |-> bonds[m][peerId].channel.sharedSecret,
                       sealed |-> sealed]}

\* handleBondData from the plaintext on: the record is counted if it is still
\* there, the event emitted, the listener called.  The clock is not modelled:
\* the time since the last send is one of ResponseTimes.
HandleBondDataResume(d) ==
    /\ d \in decrypting
    /\ decrypting' = decrypting \ {d}
    /\ LET m == d.node
           peerId == d.peerId
           message == [type |-> DecodeMessageType(d.sealed.wire.typeCode),
                       payload |-> d.sealed.wire.payload,
                       senderId |-> d.sealed.wire.senderId]
       IN  /\ bonds' = UpdateBondChannel(m, peerId, 1)
           /\ IF peerId \notin DOMAIN interactions[m]
              THEN UNCHANGED interactions
              ELSE IF interactions[m][peerId].lastMessageSentAt > 0
              THEN \E rt \in ResponseTimes :
                      interactions' = [interactions EXCEPT
                          ![m][peerId].recvCount = @ + 1,
                          ![m][peerId].responseTimesMs = Append(@, rt)]
              ELSE interactions' = [interactions EXCEPT
                          ![m][peerId].recvCount = @ + 1]
           /\ Emit(m, [type |-> "BOND_MESSAGE_RECEIVED", message |-> message])
           /\ received' = [received EXCEPT ![m] = Append(@, message)]
    /\ UNCHANGED <<bus, calls, pending, net, sent, recalcs, codec, node, faults>>

\* The transport hands an inbound frame to handleTransportMessage.
HandleTransportMessage(m, f) ==
    /\ [frame |-> f, dst |-> m] \in net
    /\ net' = net \ {[frame |-> f, dst |-> m]}
    /\ IF f.len + 1 < 2
       THEN UNCHANGED <<calls, pending, decrypting>>
       ELSE IF f.type \in {BOND_CHALLENGE, BOND_RESPONSE, BOND_CONFIRM}
       THEN /\ HandleNegotiationMessage(m, f)
            /\ UNCHANGED decrypting
       ELSE IF f.type = BOND_DATA
       THEN /\ HandleBondData(m, f)
            /\ UNCHANGED <<calls, pending>>
       ELSE UNCHANGED <<calls, pending, decrypting>>
    /\ UNCHANGED <<bus, bonds, interactions, events, received, sent, recalcs, codec, node, faults>>

\* A timer callback that deletes the key and leaves the wait unsettled.
TimeoutOnlyDeletes(c) ==
    /\ calls[c].pc \in WaitingPcs
    /\ pending' = [pending EXCEPT ![calls[c].node] =
                      Without(@, WaitKey(PeerId(c), ExpectedType(calls[c].pc)))]
    /\ UNCHANGED <<bus, received, recalcs, codec, node, decrypting, calls, bonds, interactions, net, sent, events, faults>>

\* The setTimeout callback of waitForMessage: delete the key, reject the wait.
TimeoutFires(c) ==
    /\ calls[c].pc \in WaitingPcs
    /\ pending' = [pending EXCEPT ![calls[c].node] =
                      Without(@, WaitKey(PeerId(c), ExpectedType(calls[c].pc)))]
    /\ Fail(c, "NEGOTIATION_TIMEOUT")
    /\ UNCHANGED <<bus, received, recalcs, codec, node, decrypting, bonds, interactions, net, sent, events, faults>>

\* ------------------------------------------------------------------ messaging

\* send(), lines 380-394: the bond is looked up under message.senderId; its
\* secret is read before the first await.
Send(c) ==
    /\ calls[c].kind = "send" /\ calls[c].pc = "idle"
    /\ LET n == calls[c].node
           key == calls[c].message.senderId
       IN  IF key \notin DOMAIN bonds[n]
           THEN Fail(c, "BOND_NOT_FOUND")
           ELSE IF bonds[n][key].channel.status # "ACTIVE"
           THEN Fail(c, "SEND_FAILED")
           ELSE calls' = [calls EXCEPT ![c].pc = "s_encrypt",
                                       ![c].key = bonds[n][key].channel.sharedSecret]
    /\ UNCHANGED <<bus, received, recalcs, codec, node, decrypting, pending, bonds, interactions, net, sent, events, faults>>

\* The BOND_DATA frame: prefix, nonce(12), ciphertext.  (Its length leaves out
\* the bytes of the senderId: only the comparison with MinDataLen reads it.)
DataFrame(c) ==
    Frame(BOND_DATA, SealOverhead + Len(calls[c].message.payload),
          <<AesGcmEncrypt(calls[c].key, Wire(calls[c].message), RandomNonce(c))>>,
          "none")

\* send(), lines 396-417: after `await aesGcmEncrypt`, transmit; a transport
\* that is not configured throws TransportError MEDIUM_UNAVAILABLE, which
\* send() does not catch.
SendTransmit(c) ==
    /\ calls[c].pc = "s_encrypt"
    /\ IF calls[c].node \notin bus
       THEN Fail(c, "MEDIUM_UNAVAILABLE") /\ UNCHANGED <<net, sent>>
       ELSE Transmit(c, DataFrame(c)) /\ Goto(c, "s_sent")
    /\ UNCHANGED <<bus, received, recalcs, codec, node, decrypting, pending, bonds, interactions, events, faults>>

\* send(), lines 419-426: after `await transmit`, count the exchange.
SendUpdate(c) ==
    /\ calls[c].pc = "s_sent"
    /\ LET n == calls[c].node
           key == calls[c].message.senderId
       IN  /\ bonds' = UpdateBondChannel(n, key, 1)
           /\ interactions' =
                 IF key \in DOMAIN interactions[n]
                 THEN [interactions EXCEPT ![n][key].sentCount = @ + 1,
                                           ![n][key].lastMessageSentAt = 1]
                 ELSE interactions
    /\ Goto(c, "done")
    /\ UNCHANGED <<bus, received, recalcs, codec, node, decrypting, pending, net, sent, events, faults>>

\* A close() that deletes the record and keeps the interaction counters.
CloseKeepsCounters(c) ==
    /\ calls[c].kind = "close" /\ calls[c].pc = "idle"
    /\ LET n == calls[c].node
       IN  IF PeerId(c) \notin DOMAIN bonds[n]
           THEN Fail(c, "BOND_NOT_FOUND") /\ UNCHANGED <<bonds, events>>
           ELSE /\ bonds' = [bonds EXCEPT ![n] = Without(@, PeerId(c))]
                /\ Emit(n, [type |-> "BOND_TERMINATED", peer |-> PeerId(c)])
                /\ Goto(c, "done")
    /\ UNCHANGED <<bus, received, recalcs, codec, node, decrypting, pending, interactions, net, sent, faults>>

\* close(): no await; the record and the counters go, BOND_TERMINATED is emitted.
Close(c) ==
    /\ calls[c].kind = "close" /\ calls[c].pc = "idle"
    /\ LET n == calls[c].node
       IN  IF PeerId(c) \notin DOMAIN bonds[n]
           THEN Fail(c, "BOND_NOT_FOUND") /\ UNCHANGED <<bonds, interactions, events>>
           ELSE /\ bonds' = [bonds EXCEPT ![n] = Without(@, PeerId(c))]
                /\ interactions' = [interactions EXCEPT ![n] = Without(@, PeerId(c))]
                /\ Emit(n, [type |-> "BOND_TERMINATED", peer |-> PeerId(c)])
                /\ Goto(c, "done")
    /\ UNCHANGED <<bus, received, recalcs, codec, node, decrypting, pending, net, sent, faults>>

\* transport.close(): the node leaves the medium.  The application closes
\* its transport only when no negotiation of its own is under way.
TransportClose(n) ==
    /\ n \in bus
    /\ \A c \in Calls :
          (calls[c].node = n /\ calls[c].kind \in {"initiate", "accept"}) =>
              calls[c].pc \in {"done", "failed"}
    /\ bus' = bus \ {n}
    /\ UNCHANGED <<calls, received, recalcs, codec, node, decrypting, pending, bonds, interactions, net, sent, events, faults>>

\* ------------------------------------------------------------------ medium

RunningPcs ==
    {"i_derive", "i_sign", "i_sent", "i_got_response", "i_confirm_sent",
     "a_derive", "a_got_challenge", "a_response_sent", "a_got_confirm"}

\* Nothing is in flight, every call of the scenario has been made and none has
\* a step to take: only a timer can move the system on.
Quiescent == net = {} /\ \A c \in Calls : calls[c].pc \notin RunningPcs \cup {"idle"}

\* A timer when the calls of the scenario are made together and the medium
\* delivers every frame well within the 30 s: it fires only when the message
\* it waits for can no longer be under way.
TimeoutQuiescent(c) == Quiescent /\ TimeoutFires(c)

\* A lossy medium drops a copy of a frame.
Lose(m, f) ==
    /\ faults < MaxFaults
    /\ [frame |-> f, dst |-> m] \in net
    /\ net' = net \ {[frame |-> f, dst |-> m]}
    /\ faults' = faults + 1
    /\ UNCHANGED <<bus, received, recalcs, codec, node, decrypting, calls, pending, bonds, interactions, sent, events>>

\* What a frame can become on the way: cut short behind or before the sender
\* key, or received whole with flipped bits in the key-agreement key or in the
\* 32 bytes at offset 67.  The signature bytes are those the sender made.
Damaged(f) ==
    IF Len(f.payload) < 4
    THEN {}
    ELSE {[f EXCEPT !.len = CutLen, !.payload = SubSeq(@, 1, 3)],
          [f EXCEPT !.len = StubLen, !.payload = <<>>],
          [f EXCEPT !.payload[3] = GarbageKey],
          [f EXCEPT !.payload[4] = 0]}

Corrupt(m, f, g) ==
    /\ faults < MaxFaults
    /\ [frame |-> f, dst |-> m] \in net
    /\ g \in Damaged(f)
    /\ net' = (net \ {[frame |-> f, dst |-> m]}) \cup {[frame |-> g, dst |-> m]}
    /\ faults' = faults + 1
    /\ UNCHANGED <<bus, received, recalcs, codec, node, decrypting, calls, pending, bonds, interactions, sent, events>>

\* ------------------------------------------------------------------ scenarios

EmptyMap == [x \in {} |-> 0]

Call(n, kind, peer) ==
    [node |-> n, kind |-> kind, peer |-> PublicKey(peer),
     pc |-> "idle", rx |-> <<>>, err |-> "none"]

\* One handshake: A initiates toward B, B accepts A.
PairScript == <<Call("A", "initiate", "B"), Call("B", "accept", "A")>>

\* Two handshakes between the same two nodes, one in each direction.
BothWaysScript ==
    <<Call("A", "initiate", "B"), Call("B", "accept", "A"),
      Call("B", "initiate", "A"), Call("A", "accept", "B")>>

\* A negotiates with two different peers.
TwoPeersScript ==
    <<Call("A", "initiate", "B"), Call("B", "accept", "A"),
      Call("A", "initiate", "C"), Call("C", "accept", "A")>>

\* A initiates toward B; B and a third node C both accept A.
BroadcastScript ==
    <<Call("A", "initiate", "B"), Call("B", "accept", "A"),
      Call("C", "accept", "A")>>

\* The channel key of a send that has not looked its bond up yet.
NoKey == [ecdh |-> {}, salt |-> <<>>]

\* A send() of a message whose senderId field the caller has set to `id`.
SendCall(n, id, type, payload) ==
    [node |-> n, kind |-> "send", peer |-> id[2], pc |-> "idle", rx |-> <<>>,
     err |-> "none", key |-> NoKey,
     message |-> [type |-> type, payload |-> payload, senderId |-> id]]

\* One handshake, then A sends a PING over the bond and closes it.  The
\* caller of send puts the peer's NodeId or its own into senderId.
ChannelScript(id) ==
    <<Call("A", "initiate", "B"), Call("B", "accept", "A"),
      SendCall("A", id, "PING", <<104, 105>>),
      Call("A", "close", "B")>>

\* A initiates toward B twice (a retry, or two callers), B accepts once.
RetryScript ==
    <<Call("A", "initiate", "B"), Call("B", "accept", "A"),
      Call("A", "initiate", "B")>>

\* The bond the hub holds with an offline peer p, as createBondRecord left it.
EarlierBond(n, p) ==
    NewBond(DeriveNodeId(PublicKey(p)), PublicKey(p), KeySequence(p),
            DeriveSharedSecret(n, EcdhPublicKey(p), <<0, 0>>))

InitWith(script, nodes, earlier) ==
    /\ bus = nodes
    /\ calls = script
    /\ pending = [n \in Ident |-> EmptyMap]
    /\ bonds = [n \in Ident |->
                  IF n = "A"
                  THEN [id \in {DeriveNodeId(PublicKey(Offline[i])) : i \in 1..earlier} |->
                          EarlierBond(n, id[2])]
                  ELSE EmptyMap]
    /\ interactions = [n \in Ident |->
                  IF n = "A"
                  THEN [id \in {DeriveNodeId(PublicKey(Offline[i])) : i \in 1..earlier} |->
                          NewInteraction]
                  ELSE EmptyMap]
    /\ net = {}
    /\ sent = {}
    /\ events = [n \in Ident |-> EmptyBag]
    /\ received = [n \in Ident |-> <<>>]
    /\ recalcs = <<>>
    /\ codec = NoCodec
    /\ node = NoNode
    /\ decrypting = {}
    /\ faults = 0

\* ------------------------------------------------------------------ specifications

\* Calls of the largest scenario.
MaxCalls == 4

\* The scenario a behaviour started from.
Scenario == [c \in Calls |-> [calls[c] EXCEPT !.pc = "idle", !.rx = <<>>, !.err = "none"]]

\* Every call of the scenario has been made.
Together == \A c \in Calls : calls[c].pc # "idle"

\* The calls of the scenario are made together, in one synchronous block (as
\* Promise.all([a.initiate(..), b.accept(..)]) does), before any of them
\* resumes from its first await, on a medium that delivers every frame in time.
NextReliable ==
    \/ \E c \in Calls : Initiate(c)
    \/ \E c \in Calls : Accept(c)
    \/ Together /\ \E c \in Calls : InitiateCheckBonded(c)
    \/ Together /\ \E c \in Calls : InitiateSendChallenge(c)
    \/ Together /\ \E c \in Calls : InitiateAwaitResponse(c)
    \/ Together /\ \E c \in Calls : InitiateOnResponse(c)
    \/ Together /\ \E c \in Calls : InitiateCreateBond(c)
    \/ Together /\ \E c \in Calls : AcceptAwaitChallenge(c)
    \/ Together /\ \E c \in Calls : AcceptOnChallenge(c)
    \/ Together /\ \E c \in Calls : AcceptAwaitConfirm(c)
    \/ Together /\ \E c \in Calls : AcceptOnConfirm(c)
    \/ \E e \in net : HandleTransportMessage(e.dst, e.frame)
    \/ \E c \in Calls : TimeoutQuiescent(c)

\* A medium that loses, delays and damages frames.
Next ==
    \/ \E c \in Calls : Initiate(c)
    \/ \E c \in Calls : InitiateCheckBonded(c)
    \/ \E c \in Calls : InitiateSendChallenge(c)
    \/ \E c \in Calls : InitiateAwaitResponse(c)
    \/ \E c \in Calls : InitiateOnResponse(c)
    \/ \E c \in Calls : InitiateCreateBond(c)
    \/ \E c \in Calls : Accept(c)
    \/ \E c \in Calls : AcceptAwaitChallenge(c)
    \/ \E c \in Calls : AcceptOnChallenge(c)
    \/ \E c \in Calls : AcceptAwaitConfirm(c)
    \/ \E c \in Calls : AcceptOnConfirm(c)
    \/ \E e \in net : HandleTransportMessage(e.dst, e.frame)
    \/ \E c \in Calls : TimeoutFires(c)
    \/ \E e \in net : Lose(e.dst, e.frame)
    \/ \E e \in net : \E g \in Damaged(e.frame) : Corrupt(e.dst, e.frame, g)

Init ==
    \/ InitWith(PairScript, {"A", "B"}, 0)
    \/ InitWith(BothWaysScript, {"A", "B"}, 0)
    \/ InitWith(RetryScript, {"A", "B"}, 0)

InitReliable ==
    \/ InitWith(PairScript, {"A", "B"}, 0)
    \/ InitWith(BothWaysScript, {"A", "B"}, 0)
    \/ InitWith(TwoPeersScript, {"A", "B", "C"}, 0)

\* The hub A already holds 3 or 4 bonds when it negotiates with B and C.
InitTopology ==
    \E earlier \in (MAX_BONDS_PER_CELL - 1)..MAX_BONDS_PER_CELL :
        InitWith(TwoPeersScript, {"A", "B", "C"}, earlier)

\* Handshake, messaging and close between two nodes, on a medium that loses
\* nothing; calls are made at any time and a timer may fire at any time.
NextChannel ==
    \/ \E c \in Calls : Initiate(c)
    \/ \E c \in Calls : InitiateCheckBonded(c)
    \/ \E c \in Calls : InitiateSendChallenge(c)
    \/ \E c \in Calls : InitiateAwaitResponse(c)
    \/ \E c \in Calls : InitiateOnResponse(c)
    \/ \E c \in Calls : InitiateCreateBond(c)
    \/ \E c \in Calls : Accept(c)
    \/ \E c \in Calls : AcceptAwaitChallenge(c)
    \/ \E c \in Calls : AcceptOnChallenge(c)
    \/ \E c \in Calls : AcceptAwaitConfirm(c)
    \/ \E c \in Calls : AcceptOnConfirm(c)
    \/ \E e \in net : HandleTransportMessage(e.dst, e.frame)
    \/ \E d \in decrypting : HandleBondDataResume(d)
    \/ \E c \in Calls : TimeoutFires(c)
    \/ \E c \in Calls : Send(c)
    \/ \E c \in Calls : SendTransmit(c)
    \/ \E c \in Calls : SendUpdate(c)
    \/ \E c \in Calls : Close(c)
    \/ \E n \in bus : TransportClose(n)

InitChannel ==
    \E id \in {DeriveNodeId(PublicKey("A")), DeriveNodeId(PublicKey("B"))} :
        InitWith(ChannelScript(id), {"A", "B"}, 0)

SpecChannel == InitChannel /\ [][NextChannel]_vars

\* A, with 3 or 4 bonds already, negotiates with B: twice as initiator, or
\* once in each role; calls are made at any time.
InitCell ==
    \E earlier \in (MAX_BONDS_PER_CELL - 1)..MAX_BONDS_PER_CELL :
        \/ InitWith(RetryScript, {"A", "B"}, earlier)
        \/ InitWith(BothWaysScript, {"A", "B"}, earlier)

SpecCell == InitCell /\ [][Next]_vars

\* Interaction counters a bond can have reached before the first
\* recalculation: none; 4 sent, 3 received, one answer after 36 minutes; 150
\* each way, one answer after 39 minutes.
Profiles ==
    {NewInteraction,
     [sentCount |-> 4, recvCount |-> 3, dailyCounts |-> <<>>,
      responseTimesMs |-> <<2160000>>, lastMessageSentAt |-> 1],
     [sentCount |-> 150, recvCount |-> 150, dailyCounts |-> <<>>,
      responseTimesMs |-> <<2340000>>, lastMessageSentAt |-> 1]}

\* The peer's counters for the same exchanges.
Mirror(t) ==
    [sentCount |-> t.recvCount, recvCount |-> t.sentCount, dailyCounts |-> <<>>,
     responseTimesMs |-> <<>>,
     lastMessageSentAt |-> IF t.recvCount > 0 THEN 1 ELSE 0]

\* The bond n holds with p after a handshake and the exchanges counted in t.
UsedBond(n, p, t) ==
    [EarlierBond(n, p) EXCEPT !.channel.totalExchanges = t.sentCount + t.recvCount]

\* A and B, bonded, send each other one message.
CareScript ==
    <<SendCall("A", DeriveNodeId(PublicKey("B")), "PING", <<104, 105>>),
      SendCall("B", DeriveNodeId(PublicKey("A")), "STATE_UPDATE", <<111>>)>>

\* The node whose scheduler recalculates.
Scheduler == "A"

InitCare ==
    \E t \in Profiles :
        /\ bus = {"A", "B"}
        /\ calls = CareScript
        /\ pending = [n \in Ident |-> EmptyMap]
        /\ bonds = [n \in Ident |->
                      IF n = "A" THEN DeriveNodeId(PublicKey("B")) :> UsedBond("A", "B", t)
                      ELSE IF n = "B"
                      THEN DeriveNodeId(PublicKey("A")) :> UsedBond("B", "A", Mirror(t))
                      ELSE EmptyMap]
        /\ interactions = [n \in Ident |->
                      IF n = "A" THEN DeriveNodeId(PublicKey("B")) :> t
                      ELSE IF n = "B" THEN DeriveNodeId(PublicKey("A")) :> Mirror(t)
                      ELSE EmptyMap]
        /\ net = {}
        /\ sent = {}
        /\ events = [n \in Ident |-> EmptyBag]
        /\ received = [n \in Ident |-> <<>>]
        /\ recalcs = <<>>
        /\ codec = NoCodec
        /\ node = NoNode
        /\ decrypting = {}
        /\ faults = 0

\* Two bonded nodes exchange messages while the scheduler recalculates the
\* care score of any peer, bonded or not, with any elapsed days.  No bond is
\* closed or replaced here, so the first half of handleBondData (which reads
\* the peer and the secret and changes nothing else) commutes with every other
\* step: the two halves are taken one right after the other.
NextCare ==
    \/ decrypting = {} /\ \E c \in Calls : Send(c)
    \/ decrypting = {} /\ \E c \in Calls : SendTransmit(c)
    \/ decrypting = {} /\ \E c \in Calls : SendUpdate(c)
    \/ decrypting = {} /\ \E e \in net : HandleTransportMessage(e.dst, e.frame)
    \/ \E d \in decrypting : HandleBondDataResume(d)
    \/ decrypting = {} /\ \E p \in DOMAIN bonds[Scheduler] : \E d \in Days :
                             UpdateCareScore(Scheduler, p, d)
    \/ decrypting = {} /\ UpdateCareScore(Scheduler, DeriveNodeId(PublicKey("C")), 0)

SpecCare == InitCare /\ [][NextCare]_vars

\* A and B, bonded, send each other one message and each closes the bond.
CloseScript ==
    <<SendCall("A", DeriveNodeId(PublicKey("B")), "PING", <<104, 105>>),
      SendCall("B", DeriveNodeId(PublicKey("A")), "STATE_UPDATE", <<111>>),
      Call("A", "close", "B"), Call("B", "close", "A")>>

InitClose ==
    /\ bus = {"A", "B"}
    /\ calls = CloseScript
    /\ pending = [n \in Ident |-> EmptyMap]
    /\ bonds = [n \in Ident |->
                  IF n = "A" THEN DeriveNodeId(PublicKey("B")) :> EarlierBond("A", "B")
                  ELSE IF n = "B" THEN DeriveNodeId(PublicKey("A")) :> EarlierBond("B", "A")
                  ELSE EmptyMap]
    /\ interactions = [n \in Ident |->
                  IF n = "A" THEN DeriveNodeId(PublicKey("B")) :> NewInteraction
                  ELSE IF n = "B" THEN DeriveNodeId(PublicKey("A")) :> NewInteraction
                  ELSE EmptyMap]
    /\ net = {}
    /\ sent = {}
    /\ events = [n \in Ident |-> EmptyBag]
    /\ received = [n \in Ident |-> <<>>]
    /\ recalcs = <<>>
    /\ codec = NoCodec
    /\ node = NoNode
    /\ decrypting = {}
    /\ faults = 0

\* Messages and close() on an open bond; calls are made at any time and a
\* decryption ends at any time.
NextClose ==
    \/ \E c \in Calls : Send(c)
    \/ \E c \in Calls : SendTransmit(c)
    \/ \E c \in Calls : SendUpdate(c)
    \/ \E e \in net : HandleTransportMessage(e.dst, e.frame)
    \/ \E d \in decrypting : HandleBondDataResume(d)
    \/ \E c \in Calls : Close(c)

SpecClose == InitClose /\ [][NextClose]_vars

\* Three nodes on the broadcast medium: every frame reaches the two others.
InitBroadcast == InitWith(BroadcastScript, {"A", "B", "C"}, 0)

SpecBroadcast == InitBroadcast /\ [][Next]_vars

\* Bytes, halves of a timestamp, sequence numbers and payloads a codec call is
\* made with.
Bytes == {0, 1, 128, 255}

Halves == {0, 1, 32767, 32768, 65535}

SequenceNumbers == {0, 1, 15, 16, 200, 255}

Payloads == {<<>>, <<1, 2, 3>>, <<255>>}

StateUpdates ==
    [identity : [publicKey : {[i \in 1..PubKeyLen |-> 2],
                              [i \in 1..PubKeyLen |-> IF i = 1 THEN 3 ELSE 255]},
                 keySequence : Bytes],
     stateData : [urgency : {0, 255}, emotional : {0, 128}, cognitive : {1, 255},
                  timestamp : {Num(hi, lo) : hi \in Halves, lo \in {0, 65535}}],
     signature : {[i \in 1..SignatureLen |-> i]}]

VaultFragments ==
    [packetType : {PACKET_TYPE_VAULT},
     layerIndex : {0, 255},
     sequence : [current : SequenceNumbers, total : SequenceNumbers],
     payload : Payloads]

\* One codec call: a state update or a vault fragment is serialized and the
\* buffer parsed; no channel is open.
InitCodec ==
    /\ \/ \E m \in StateUpdates : codec = [NoCodec EXCEPT !.kind = "state", !.input = m]
       \/ \E f \in VaultFragments : codec = [NoCodec EXCEPT !.kind = "vault", !.input = f]
    /\ bus = {}
    /\ calls = <<>>
    /\ pending = [n \in Ident |-> EmptyMap]
    /\ bonds = [n \in Ident |-> EmptyMap]
    /\ interactions = [n \in Ident |-> EmptyMap]
    /\ net = {}
    /\ sent = {}
    /\ events = [n \in Ident |-> EmptyBag]
    /\ received = [n \in Ident |-> <<>>]
    /\ recalcs = <<>>
    /\ node = NoNode
    /\ decrypting = {}
    /\ faults = 0

NextCodec ==
    \/ Serialize
    \/ Deserialize

SpecCodec == InitCodec /\ [][NextCodec]_vars

\* A booted NodeZero whose application calls initiateBond once for each peer
\* discovered, at any time, and closes bonds; no channel is open.
InitNode ==
    /\ node = BootedNode
    /\ bus = {}
    /\ calls = <<>>
    /\ pending = [n \in Ident |-> EmptyMap]
    /\ bonds = [n \in Ident |-> EmptyMap]
    /\ interactions = [n \in Ident |-> EmptyMap]
    /\ net = {}
    /\ sent = {}
    /\ events = [n \in Ident |-> EmptyBag]
    /\ received = [n \in Ident |-> <<>>]
    /\ recalcs = <<>>
    /\ codec = NoCodec
    /\ decrypting = {}
    /\ faults = 0

NextNode ==
    \/ \E p \in Discovered : InitiateBond(p)
    \/ \E p \in Discovered : InitiateBondCheck(p)
    \/ \E p \in Discovered : InitiateBondStore(p)
    \/ \E p \in Discovered : CloseBond(p)

SpecNode == InitNode /\ [][NextNode]_vars

Spec == Init /\ [][Next]_vars

\* What a call that has been made does next, its timer included.
CallStep(c) ==
    \/ InitiateCheckBonded(c)
    \/ InitiateSendChallenge(c)
    \/ InitiateAwaitResponse(c)
    \/ InitiateOnResponse(c)
    \/ InitiateCreateBond(c)
    \/ AcceptAwaitChallenge(c)
    \/ AcceptOnChallenge(c)
    \/ AcceptAwaitConfirm(c)
    \/ AcceptOnConfirm(c)
    \/ TimeoutFires(c)

\* The event loop does not stop while a continuation is ready or a timer is
\* armed; the medium owes nothing.
InitLive ==
    \/ InitWith(PairScript, {"A", "B"}, 0)
    \/ InitWith(RetryScript, {"A", "B"}, 0)

SpecLive == InitLive /\ [][Next]_vars /\ WF_vars(\E c \in Calls : CallStep(c))

SpecReliable == InitReliable /\ [][NextReliable]_vars

SpecTopology == InitTopology /\ [][NextReliable]_vars

\* ------------------------------------------------------------------ claims

NodeIdOf(n) == DeriveNodeId(PublicKey(n))

HasBond(n, m) == NodeIdOf(m) \in DOMAIN bonds[n]

BondOf(n, m) == bonds[n][NodeIdOf(m)]

Ended(c) == calls[c].pc \in {"done", "failed"}

\* C1: in every reachable state, also while several initiate/accept calls are
\* in flight, a node holds at most MAX_BONDS_PER_CELL (4) ACTIVE bonds.
C1_AtMostFourActive ==
    \A n \in bus : GetActiveBondCount(n) <= MAX_BONDS_PER_CELL

\* C2: when A calls initiate(B) and B calls accept(A) together, both without
\* bonds, on a medium that delivers every frame, neither call fails, and a call
\* that has completed leaves an ACTIVE bond of tier STRUT for the other node.
C2_PairCompletes ==
    Scenario = PairScript =>
        \A c \in Calls :
            /\ calls[c].pc # "failed"
            /\ calls[c].pc = "done" =>
                  /\ PeerId(c) \in DOMAIN bonds[calls[c].node]
                  /\ bonds[calls[c].node][PeerId(c)].channel.status = "ACTIVE"
                  /\ bonds[calls[c].node][PeerId(c)].trust.tier = "STRUT"

\* C3: whenever two nodes hold a bond record for each other, the two records
\* hold the same shared secret.
C3_SameSecret ==
    \A n \in bus : \A m \in bus \ {n} :
        (HasBond(n, m) /\ HasBond(m, n)) =>
            BondOf(n, m).channel.sharedSecret = BondOf(m, n).channel.sharedSecret

\* The frame carries the signature pk's holder made over exactly this payload.
SignedBy(f, pk) == f.sig.by = pk /\ f.sig.over = f.payload

\* The bond records of node n whose secret was salted with the nonce of call c.
BondsFrom(c) ==
    {p \in DOMAIN bonds[calls[c].node] :
        \E i \in 1..2 : bonds[calls[c].node][p].channel.sharedSecret.salt[i] = RandomNonce(c)}

ConfirmsBy(c) == {s \in sent : s.by = c /\ s.frame.type = BOND_CONFIRM}

\* An initiate call that has examined a full-length BondResponse whose echo
\* is not the nonce the call drew.
ExaminedWrongEcho(c) ==
    /\ calls[c].kind = "initiate"
    /\ Len(calls[c].rx) = 1
    /\ calls[c].pc # "i_got_response"
    /\ calls[c].rx[1].len >= ResponseLen
    /\ NonceAt99(calls[c].rx[1].payload) # RandomNonce(c)

\* C4: an initiate that receives a BondResponse whose echoed nonce differs
\* from the nonce it sent fails with VERIFICATION_FAILED, whether or not the
\* signature is valid; it sends no BondConfirm and creates no bond record.
C4_WrongEchoRejected ==
    \A c \in Calls :
        ExaminedWrongEcho(c) =>
            /\ calls[c].pc = "failed"
            /\ calls[c].err = "VERIFICATION_FAILED"
            /\ ConfirmsBy(c) = {}
            /\ BondsFrom(c) = {}

\* C4 happens: a BondResponse with a valid signature of the peer and a wrong
\* echo has been examined.
C4_Witness ==
    \E c \in Calls :
        /\ ExaminedWrongEcho(c)
        /\ SignedBy(calls[c].rx[1], calls[c].peer)
        /\ calls[c].pc = "failed"

\* An accept call that has examined a full-length BondConfirm.
ExaminedConfirm(c) ==
    /\ calls[c].kind = "accept"
    /\ Len(calls[c].rx) = 2
    /\ calls[c].pc # "a_got_confirm"
    /\ calls[c].rx[2].len >= ConfirmLen

GoodConfirm(c) ==
    /\ calls[c].rx[2].type = BOND_CONFIRM
    /\ NonceAt67(calls[c].rx[2].payload) = RandomNonce(c)
    /\ SignedBy(calls[c].rx[2], calls[c].peer)

\* C5: accept creates its bond only after a BondConfirm that echoes the
\* responder's nonce and carries a signature valid under the initiator's key;
\* a BondConfirm failing either check fails the call with VERIFICATION_FAILED
\* and creates no bond.
C5_ConfirmChecked ==
    \A c \in Calls :
        calls[c].kind = "accept" =>
            /\ (calls[c].pc = "done" \/ BondsFrom(c) # {}) =>
                   ExaminedConfirm(c) /\ GoodConfirm(c)
            /\ (ExaminedConfirm(c) /\ ~GoodConfirm(c)) =>
                   /\ calls[c].pc = "failed"
                   /\ calls[c].err = "VERIFICATION_FAILED"
                   /\ BondsFrom(c) = {}

\* C5 happens: one accept has been failed by a BondConfirm with the right echo
\* and a bad signature, or by one with the wrong echo; the state where an
\* accept has created its bond is C5_WitnessBond.
C5_Witness ==
    \E c \in Calls :
        /\ ExaminedConfirm(c)
        /\ calls[c].err = "VERIFICATION_FAILED"
        /\ NonceAt67(calls[c].rx[2].payload) = RandomNonce(c)
        /\ ~SignedBy(calls[c].rx[2], calls[c].peer)

C5_WitnessWrongEcho ==
    \E c \in Calls :
        /\ ExaminedConfirm(c)
        /\ calls[c].err = "VERIFICATION_FAILED"
        /\ NonceAt67(calls[c].rx[2].payload) # RandomNonce(c)

C5_WitnessBond ==
    \E c \in Calls : ExaminedConfirm(c) /\ calls[c].pc = "done" /\ BondsFrom(c) # {}

\* C6: a step that creates or changes a bond record or its interaction
\* counters is the step in which a call of that node completes, a completed
\* call never fails and a failed call never completes: a call that fails (by
\* timeout, undersized message, nonce mismatch or bad signature) has not
\* touched a bond record or a counter.
C6_FailureLeavesNoTrace ==
    [][/\ \A n \in bus :
            (bonds'[n] # bonds[n] \/ interactions'[n] # interactions[n]) =>
                \E c \in Calls :
                    /\ calls[c].node = n
                    /\ ~Ended(c)
                    /\ calls'[c].pc = "done"
       /\ \A c \in Calls : Ended(c) => calls'[c] = calls[c]]_vars

\* C6 happens: a call has failed after an undersized message, another has
\* timed out or failed verification, and the node of a failed call holds the
\* bond another call made.
C6_Witness ==
    /\ \E c \in Calls : calls[c].err = "NEGOTIATION_FAILED"
    /\ \E c \in Calls :
        /\ calls[c].err \in {"NEGOTIATION_TIMEOUT", "VERIFICATION_FAILED"}
        /\ PeerId(c) \in DOMAIN bonds[calls[c].node]
        /\ BondsFrom(c) = {}

\* C7: negotiations with different peers do not disturb each other: when A
\* negotiates with B and with C at once over a medium that delivers every
\* frame unchanged, no call is failed by a message of the other negotiation
\* (every frame is signed by its sender, so a verification can only fail on
\* a frame that belongs to the other negotiation).
C7_PeersIndependent ==
    Scenario = TwoPeersScript =>
        \A c \in Calls : calls[c].err # "VERIFICATION_FAILED"

\* Call c, already made, has yet to receive frame f from its peer.
Awaits(c, f) ==
    /\ Len(f.payload) >= 1
    /\ calls[c].peer = SenderKey(f.payload)
    /\ \/ f.type = BOND_CHALLENGE /\ calls[c].pc \in {"a_derive", "a_wait_challenge"}
       \/ f.type = BOND_RESPONSE /\ calls[c].pc \in {"i_sent", "i_wait_response"}
       \/ f.type = BOND_CONFIRM /\ calls[c].pc \in {"a_response_sent", "a_wait_confirm"}

\* In this step call c receives frame f.
Receives(c, f) == calls'[c].rx = Append(calls[c].rx, f)

\* C8: no wakeup is lost: a frame that arrives at a node where a call is
\* under way that has yet to receive it (a BondResponse after the
\* BondChallenge was transmitted, a BondChallenge after accept was called) is
\* received by a call of that node.
C8_NoLostWakeup ==
    [][\A e \in net \ net' :
          (\E c \in Calls : calls[c].node = e.dst /\ Awaits(c, e.frame)) =>
              \E c \in Calls : calls[c].node = e.dst /\ Receives(c, e.frame)]_vars

\* The order in which a call receives the messages of the handshake.
PhaseOrder(kind) ==
    IF kind = "initiate" THEN <<BOND_RESPONSE>> ELSE <<BOND_CHALLENGE, BOND_CONFIRM>>

\* C9: a call receives messages only in the order of the phases and only
\* from its peer, and only while it waits; a frame that arrives and matches
\* no wait is dropped: no call, no wait, no bond and no event changes.
C9_PhaseOrder ==
    [][/\ \A c \in Calls :
            calls'[c].rx # calls[c].rx =>
                /\ calls[c].pc \in WaitingPcs
                /\ Len(calls'[c].rx) = Len(calls[c].rx) + 1
                /\ Len(calls'[c].rx) <= Len(PhaseOrder(calls[c].kind))
                /\ LET i == Len(calls'[c].rx)
                       f == calls'[c].rx[i]
                   IN  /\ f.type = PhaseOrder(calls[c].kind)[i]
                       /\ [frame |-> f, dst |-> calls[c].node] \in net \ net'
                       /\ f.len >= PubKeyLen
                       /\ SenderKey(f.payload) = calls[c].peer
       /\ (net' # net /\ net' \subseteq net /\ \A c \in Calls : calls'[c].rx = calls[c].rx) =>
              UNCHANGED <<calls, pending, bonds, interactions, events>>]_vars

\* C9 happens: with no frame lost or damaged, an accept has received the
\* BondChallenge and the BondConfirm in order, and a frame that was
\* transmitted to a node is gone from the medium without a call of that node
\* having received it.
C9_Witness ==
    /\ faults = 0
    /\ \E c \in Calls : calls[c].kind = "accept" /\ Len(calls[c].rx) = 2
    /\ \E s \in sent : \E m \in bus \ {calls[s.by].node} :
          /\ [frame |-> s.frame, dst |-> m] \notin net
          /\ \A c \in Calls :
                calls[c].node = m => \A i \in 1..Len(calls[c].rx) : calls[c].rx[i] # s.frame

\* C10: every wait ends within the timeout, with NEGOTIATION_TIMEOUT if the
\* message has not come: every call that has been made completes or fails.
C10_EveryCallEnds ==
    \A c \in 1..MaxCalls :
        (c \in Calls /\ calls[c].pc # "idle") ~> (c \in Calls /\ Ended(c))

\* C10 happens: a call has timed out while waiting.
C10_Witness ==
    \E c \in Calls : calls[c].pc = "failed" /\ calls[c].err = "NEGOTIATION_TIMEOUT"

\* Accept call d answered the BondChallenge of initiate call c.
SameHandshake(c, d) ==
    /\ calls[c].kind = "initiate" /\ calls[d].kind = "accept"
    /\ PublicKey(calls[d].node) = calls[c].peer
    /\ calls[d].peer = PublicKey(calls[c].node)
    /\ Len(calls[d].rx) >= 1
    /\ [by |-> c, frame |-> calls[d].rx[1]] \in sent

\* C11: on a medium that delivers every frame, when an initiate has completed
\* and the initiator holds an ACTIVE bond for the responder, the accept of the
\* same handshake has not failed or timed out.
C11_BothSidesActive ==
    \A c \in Calls : \A d \in Calls :
        (/\ SameHandshake(c, d)
         /\ calls[c].pc = "done"
         /\ PeerId(c) \in DOMAIN bonds[calls[c].node]
         /\ bonds[calls[c].node][PeerId(c)].channel.status = "ACTIVE") =>
            calls[d].pc # "failed"

\* Call c, not yet made, is made in this step.
IsCalled(c) == calls[c].pc = "idle" /\ calls'[c] # calls[c]

\* C12: an initiate or accept that is called while 4 bonds are ACTIVE fails
\* with TOPOLOGY_VIOLATION; the step transmits no frame, registers no wait
\* and leaves the bond map as it is.
C12_FullCellRefuses ==
    [][\A c \in Calls :
          (/\ calls[c].kind \in {"initiate", "accept"}
           /\ IsCalled(c)
           /\ GetActiveBondCount(calls[c].node) = MAX_BONDS_PER_CELL) =>
              /\ calls'[c].pc = "failed"
              /\ calls'[c].err = "TOPOLOGY_VIOLATION"
              /\ net' = net /\ sent' = sent
              /\ pending' = pending
              /\ bonds' = bonds]_vars

\* C12 happens: an initiate and an accept have both been refused by a node
\* that holds 4 ACTIVE bonds.
C12_Witness ==
    /\ \E c \in Calls : calls[c].kind = "initiate" /\ calls[c].err = "TOPOLOGY_VIOLATION"
    /\ \E c \in Calls :
          /\ calls[c].kind = "accept" /\ calls[c].err = "TOPOLOGY_VIOLATION"
          /\ GetActiveBondCount(calls[c].node) = MAX_BONDS_PER_CELL

\* C13: while a bond record for P exists, whatever the number of other
\* bonds, every step of initiate(P) up to its duplicate check transmits
\* nothing and leaves the record as it is, the check fails the call, and the
\* call fails with nothing but ALREADY_BONDED.
C13_DuplicateRefused ==
    [][\A c \in Calls :
          (/\ calls[c].kind = "initiate"
           /\ calls[c].pc \in {"idle", "i_derive"}
           /\ calls'[c] # calls[c]
           /\ PeerId(c) \in DOMAIN bonds[calls[c].node]) =>
              /\ calls[c].pc = "i_derive" => calls'[c].pc = "failed"
              /\ calls'[c].pc = "failed" => calls'[c].err = "ALREADY_BONDED"
              /\ sent' = sent
              /\ bonds' = bonds]_vars

\* The length of a whole negotiation message of the given type.
FullLen(type) ==
    CASE type = BOND_CHALLENGE -> ChallengeLen
      [] type = BOND_RESPONSE -> ResponseLen
      [] type = BOND_CONFIRM -> ConfirmLen

\* Call c has a wait registered for a message of this type, and every frame
\* that reaches its node comes from its peer (the only other node on the bus).
WaitsFor(c, type) ==
    /\ calls[c].pc \in WaitingPcs
    /\ type = PhaseOrder(calls[c].kind)[Len(calls[c].rx) + 1]
    /\ <<PeerId(c), type>> \in DOMAIN pending[calls[c].node]
    /\ pending[calls[c].node][<<PeerId(c), type>>] = c
    /\ \A n \in bus \ {calls[c].node} : calls[c].peer = PublicKey(n)

\* C14: an undersized Challenge, Response or Confirm that reaches a node from
\* the expected peer while the matching wait is pending is not ignored: the
\* waiting call receives it (and then fails with NEGOTIATION_FAILED).
C14_UndersizedNotIgnored ==
    [][\A e \in net \ net' :
          (/\ faults' = faults
           /\ e.frame.type \in {BOND_CHALLENGE, BOND_RESPONSE, BOND_CONFIRM}
           /\ e.frame.len < FullLen(e.frame.type)
           /\ \E c \in Calls : calls[c].node = e.dst /\ WaitsFor(c, e.frame.type)) =>
              \E c \in Calls : calls[c].node = e.dst /\ Receives(c, e.frame)]_vars

\* In this step a handshake call c completes, which creates its bond record.
Completes(c) ==
    /\ calls[c].kind \in {"initiate", "accept"}
    /\ calls[c].pc # "done"
    /\ calls'[c].pc = "done"

\* C15: the bond record a successful initiate or accept creates has, at that
\* moment, careScore 0.5, tier STRUT, status ACTIVE and totalExchanges 0.
C15_FreshBond ==
    [][\A c \in Calls :
          Completes(c) =>
              /\ PeerId(c) \in DOMAIN bonds'[calls[c].node]
              /\ LET bond == bonds'[calls[c].node][PeerId(c)]
                 IN  /\ bond.trust.careScore = InitialScore
                     /\ bond.trust.tier = "STRUT"
                     /\ bond.channel.status = "ACTIVE"
                     /\ bond.channel.totalExchanges = 0]_vars

\* C15 happens: an initiate and an accept have each created a record.
C15_Witness ==
    /\ \E c \in Calls : calls[c].kind = "initiate" /\ calls[c].pc = "done"
    /\ \E c \in Calls : calls[c].kind = "accept" /\ calls[c].pc = "done"

\* The node whose NodeId is id.
NodeOf(id) == CHOOSE n \in Ident : NodeIdOf(n) = id

\* The frame send call c transmitted has been handed to node m, whose
\* transport is still open.
Delivered(c, m) ==
    /\ m \in bus
    /\ \E s \in sent : s.by = c /\ [frame |-> s.frame, dst |-> m] \notin net

\* How often the listener of node m was called with the type and payload of msg.
TimesReceived(m, msg) ==
    Cardinality({i \in 1..Len(received[m]) :
                    /\ received[m][i].type = msg.type
                    /\ received[m][i].payload = msg.payload})

\* The send calls of node n over its bond with peerId that have completed.
SendsDone(n, peerId) ==
    {c \in Calls : /\ calls[c].kind = "send" /\ calls[c].node = n
                   /\ calls[c].message.senderId = peerId /\ calls[c].pc = "done"}

\* C16: once a send over the ACTIVE bond with B has completed and its frame
\* has been delivered to B, B's listener has been called exactly once with
\* the type and payload sent, and the exchange has been counted once on the
\* sender's record for B and once on B's record for the sender.
C16_RoundTrip ==
    \A c \in Calls :
        (/\ calls[c].kind = "send" /\ calls[c].pc = "done"
         /\ NodeOf(calls[c].message.senderId) # calls[c].node
         /\ Delivered(c, NodeOf(calls[c].message.senderId))) =>
            LET a == calls[c].node
                b == NodeOf(calls[c].message.senderId)
            IN  /\ TimesReceived(b, calls[c].message) = 1
                /\ HasBond(a, b) =>
                      BondOf(a, b).channel.totalExchanges =
                          Cardinality(SendsDone(a, NodeIdOf(b)))
                /\ HasBond(b, a) =>
                      BondOf(b, a).channel.totalExchanges =
                          Cardinality(SendsDone(a, NodeIdOf(b)))

\* The send calls whose frame carried the message the listener was given.
SendersOf(msg) ==
    {s.by : s \in {t \in sent :
                      /\ t.frame.type = BOND_DATA
                      /\ t.frame.payload[1].wire = Wire(msg)}}

\* C17: the senderId of every message handed to a receive listener is the
\* NodeId of the node that sent the message.
C17_SenderIdIsSender ==
    \A m \in bus : \A i \in 1..Len(received[m]) :
        \E c \in SendersOf(received[m][i]) :
            received[m][i].senderId = NodeIdOf(calls[c].node)

\* The error kinds of ChannelError.
ChannelErrorKinds ==
    {"TOPOLOGY_VIOLATION", "BOND_NOT_FOUND", "NEGOTIATION_FAILED",
     "NEGOTIATION_TIMEOUT", "ALREADY_BONDED", "VERIFICATION_FAILED", "SEND_FAILED"}

\* C18: a send that has found its ACTIVE bond and then fails, which it can
\* only do because the transport fails to transmit the frame, fails with the
\* channel error kind SEND_FAILED.
C18_TransportFailureIsSendFailed ==
    \A c \in Calls :
        (calls[c].kind = "send" /\ calls[c].pc = "failed" /\ calls[c].key # NoKey) =>
            /\ calls[c].err \in ChannelErrorKinds
            /\ calls[c].err = "SEND_FAILED"

\* The BOND_TERMINATED events node n has emitted for peerId.
Terminated(evts, peerId) == CopiesIn([type |-> "BOND_TERMINATED", peer |-> peerId], evts)

\* C19: close(peerId) on an existing bond completes in one step that deletes
\* the record and its interaction counters and emits exactly one
\* BOND_TERMINATED and nothing else; after it getBond(peerId) is undefined
\* and the number of ACTIVE bonds is one lower.
C19_CloseDeletes ==
    [][\A c \in Calls :
          (/\ calls[c].kind = "close"
           /\ IsCalled(c)
           /\ PeerId(c) \in DOMAIN bonds[calls[c].node]) =>
              LET n == calls[c].node
              IN  /\ calls'[c].pc = "done"
                  /\ PeerId(c) \notin DOMAIN bonds'[n]
                  /\ PeerId(c) \notin DOMAIN interactions'[n]
                  /\ Terminated(events'[n], PeerId(c)) = Terminated(events[n], PeerId(c)) + 1
                  /\ BagCardinality(events'[n]) = BagCardinality(events[n]) + 1
                  /\ Cardinality({p \in DOMAIN bonds'[n] : bonds'[n][p].channel.status = "ACTIVE"})
                       = Cardinality({p \in DOMAIN bonds[n] : bonds[n][p].channel.status = "ACTIVE"}) - 1]_vars

\* C19 happens: a close of an existing bond has completed and the record and
\* its counters are gone.
C19_Witness ==
    \E c \in Calls :
        /\ calls[c].kind = "close" /\ calls[c].pc = "done"
        /\ PeerId(c) \notin DOMAIN bonds[calls[c].node]
        /\ Terminated(events[calls[c].node], PeerId(c)) = 1

\* C20: a close that has completed has transmitted a termination message to
\* the peer, and once that message has been delivered the peer holds no bond
\* record for the closing node.
C20_CloseNotifiesPeer ==
    \A c \in Calls :
        (calls[c].kind = "close" /\ calls[c].pc = "done") =>
            /\ \E s \in sent : s.by = c
            /\ (\A s \in sent : \A m \in bus :
                   s.by = c => [frame |-> s.frame, dst |-> m] \notin net) =>
                  \A m \in bus \ {calls[c].node} :
                      PublicKey(m) = calls[c].peer => ~HasBond(m, calls[c].node)

\* The number of events of one type in a bag of events.
CountType(evts, type) ==
    BagCardinality([e \in {x \in BagToSet(evts) : x.type = type} |-> evts[e]])

\* The step is an updateCareScore(p, ..) call at node n.
Recalculates(n, p) ==
    /\ Len(recalcs') = Len(recalcs) + 1
    /\ recalcs'[Len(recalcs')].node = n
    /\ recalcs'[Len(recalcs')].peerId = p

\* C21: an updateCareScore call on an existing bond emits exactly one
\* CARE_SCORE_UPDATED; it emits one BOND_TRUST_CHANGED, carrying the previous
\* and the new tier, when the stored tier changed in the call, and none when
\* it did not; it emits nothing else.
C21_RecalcEvents ==
    [][\A n \in Ident : \A p \in DOMAIN bonds[n] :
          Recalculates(n, p) =>
              LET old == bonds[n][p].trust.tier
                  new == bonds'[n][p].trust.tier
                  changed == [type |-> "BOND_TRUST_CHANGED", peer |-> p,
                              previousTier |-> old, currentTier |-> new,
                              careScore |-> bonds'[n][p].trust.careScore]
              IN  /\ CountType(events'[n], "CARE_SCORE_UPDATED")
                       = CountType(events[n], "CARE_SCORE_UPDATED") + 1
                  /\ CountType(events'[n], "BOND_TRUST_CHANGED")
                       = CountType(events[n], "BOND_TRUST_CHANGED") + (IF old # new THEN 1 ELSE 0)
                  /\ old # new => CopiesIn(changed, events'[n]) = CopiesIn(changed, events[n]) + 1
                  /\ BagCardinality(events'[n])
                       = BagCardinality(events[n]) + (IF old # new THEN 2 ELSE 1)]_vars

\* C21 happens: one recalculation of an existing bond changed its tier and
\* another left it as it was.
C21_Witness ==
    /\ \E i \in 1..Len(recalcs) :
          recalcs[i].outcome = "ok" /\ recalcs[i].previousTier # recalcs[i].tier
    /\ \E i \in 1..Len(recalcs) :
          recalcs[i].outcome = "ok" /\ recalcs[i].previousTier = recalcs[i].tier

\* The order of the tiers and the threshold at which each begins.
Rank(tier) ==
    CASE tier = "GHOST" -> 0 [] tier = "STRUT" -> 1
      [] tier = "COHERENT" -> 2 [] tier = "RESONANT" -> 3

ThresholdOf(tier) ==
    CASE tier = "STRUT" -> 200 [] tier = "COHERENT" -> 500 [] tier = "RESONANT" -> 800

\* The recalculations that stored a score.
Stored == {i \in 1..Len(recalcs) : recalcs[i].outcome = "ok"}

\* C22: a recalculation of a bond at tier X (STRUT, COHERENT, RESONANT) whose
\* new score is at or above threshold(X) - 0.02 leaves the bond at X or
\* higher; the bond drops below X only on a score below threshold(X) - 0.02.
C22_DropsOnlyBelowBand ==
    \A i \in Stored :
        LET e == recalcs[i]
        IN  e.previousTier \in {"STRUT", "COHERENT", "RESONANT"} =>
               /\ e.score >= ThresholdOf(e.previousTier) - 20 => Rank(e.tier) >= Rank(e.previousTier)
               /\ Rank(e.tier) < Rank(e.previousTier) => e.score < ThresholdOf(e.previousTier) - 20

\* C22 happens: a score under the threshold of the bond's tier, inside the
\* band, left a COHERENT bond as it was.
C22_Witness ==
    \E i \in Stored :
        /\ recalcs[i].previousTier = "COHERENT" /\ recalcs[i].tier = "COHERENT"
        /\ recalcs[i].score < 500 /\ recalcs[i].score >= 480

\* C23: a recalculation moves a bond into a higher tier Y only on a score
\* strictly above threshold(Y) + 0.02: a score equal to threshold(Y) + 0.02,
\* or lower, never promotes into Y.
C23_PromotesOnlyAboveBand ==
    \A i \in Stored :
        LET e == recalcs[i]
        IN  Rank(e.tier) > Rank(e.previousTier) => e.score > ThresholdOf(e.tier) + 20

\* The same with a score equal to threshold(Y) + 0.02 let through.
C23_PromotesFromBandEdge ==
    \A i \in Stored :
        LET e == recalcs[i]
        IN  Rank(e.tier) > Rank(e.previousTier) => e.score >= ThresholdOf(e.tier) + 20

\* The recalculations of the bond n holds with p, in order.
BondLog(n, p) ==
    SelectSeq(recalcs, LAMBDA e : e.node = n /\ e.peerId = p /\ e.outcome = "ok")

\* The tier of the bond after the j-th recalculation of L, before the first for j = 0.
TierAt(L, j) == IF j = 0 THEN L[1].previousTier ELSE L[j].tier

\* The recalculations i..k of L all stored a score within 0.02 of threshold t.
InBand(L, i, k, t) == \A j \in i..k : L[j].score >= t - 20 /\ L[j].score <= t + 20

\* C24: over recalculations of one bond whose scores all stay within 0.02 of
\* one threshold, the tier never returns to a tier it has left.
C24_NoOscillation ==
    \A n \in Ident : \A p \in DOMAIN bonds[n] :
        LET L == BondLog(n, p)
        IN  \A t \in {200, 500, 800} : \A i \in 1..Len(L) : \A k \in i..Len(L) :
                InBand(L, i, k, t) =>
                    \A a \in (i - 1)..k : \A b \in a..k : \A c \in b..k :
                        ~(TierAt(L, a) = TierAt(L, c) /\ TierAt(L, b) # TierAt(L, a))

\* C24 happens: two recalculations in a row stored scores within 0.02 of one
\* threshold, the first moved the tier and the second, on the other side of
\* the threshold, did not move it back.
C24_Witness ==
    \E n \in Ident : \E p \in DOMAIN bonds[n] :
        LET L == BondLog(n, p)
        IN  /\ Len(L) = 2
            /\ InBand(L, 1, 2, 500)
            /\ TierAt(L, 0) # TierAt(L, 1)
            /\ TierAt(L, 2) = TierAt(L, 1)
            /\ L[1].score >= 500 /\ L[2].score < 500

\* The tier the threshold table gives a score.
TableTier(s) ==
    IF s < 200 THEN "GHOST" ELSE IF s < 500 THEN "STRUT"
    ELSE IF s < 800 THEN "COHERENT" ELSE "RESONANT"

\* The score is more than 0.02 away from every threshold.
OutsideBands(s) ==
    \A t \in {200, 500, 800} : s < t - 20 \/ s > t + 20

\* C25: a bond whose stored careScore is more than 0.02 away from each of
\* 0.2, 0.5 and 0.8 has the tier of the threshold table.
C25_TableOutsideBands ==
    \A n \in Ident : \A p \in DOMAIN bonds[n] :
        OutsideBands(bonds[n][p].trust.careScore) =>
            bonds[n][p].trust.tier = TableTier(bonds[n][p].trust.careScore)

\* C25 happens: a bond that was RESONANT holds a score far below every band
\* and is GHOST, and a bond that was STRUT holds one far above and is RESONANT.
C25_Witness ==
    \E i \in Stored :
        LET e == recalcs[i]
            trust == bonds[e.node][e.peerId].trust
        IN  /\ i = Len(recalcs)
            /\ trust.careScore = e.score /\ OutsideBands(e.score)
            /\ e.previousTier = "RESONANT" /\ trust.tier = "GHOST"

\* C26: updateCareScore with 0 elapsed days on a newly formed bond over which
\* no message has been exchanged stores careScore 0.55 with frequency 0,
\* reciprocity 0.5, consistency 1.0 and responsiveness 1.0, and changes the
\* tier from STRUT to COHERENT.
C26_FreshRecalculation ==
    [][\A n \in Ident : \A p \in DOMAIN bonds[n] :
          (/\ Recalculates(n, p)
           /\ recalcs'[Len(recalcs')].days = 0
           /\ interactions[n][p].sentCount = 0 /\ interactions[n][p].recvCount = 0
           /\ bonds[n][p].trust.careScore = 500 /\ bonds[n][p].trust.tier = "STRUT") =>
              bonds'[n][p].trust =
                  [careScore |-> 550,
                   components |-> [frequency |-> 0, reciprocity |-> 500,
                                   consistency |-> 1000, responsiveness |-> 1000],
                   tier |-> "COHERENT"]]_vars

\* C26 happens: a bond with no exchanges, STRUT before, was recalculated with
\* 0 elapsed days and holds the result.
C26_Witness ==
    \E i \in Stored :
        LET e == recalcs[i]
        IN  /\ i = Len(recalcs)
            /\ e.days = 0 /\ e.sentCount = 0 /\ e.recvCount = 0 /\ e.previousTier = "STRUT"
            /\ bonds[e.node][e.peerId].trust.careScore = e.score
            /\ bonds[e.node][e.peerId].trust.tier = "COHERENT"

\* Two recalculations of the same bond with the same interaction counters.
SameCounters(e, f) ==
    /\ e.node = f.node /\ e.peerId = f.peerId
    /\ e.sentCount = f.sentCount /\ e.recvCount = f.recvCount
    /\ e.responseTimesMs = f.responseTimesMs

\* C27: for the same interaction counters, updateCareScore with 14 elapsed
\* days stores half (to the thousandth) of what updateCareScore with 0 elapsed
\* days stores; with 60 elapsed days on a fresh bond at STRUT it changes the
\* tier to GHOST.
C27_Decay ==
    /\ \A i \in Stored : \A j \in Stored :
          (SameCounters(recalcs[i], recalcs[j]) /\ recalcs[i].days = 0 /\ recalcs[j].days = 14) =>
              recalcs[j].score = recalcs[i].score \div 2
    /\ \A i \in Stored :
          (/\ recalcs[i].days = 60 /\ recalcs[i].previousTier = "STRUT"
           /\ recalcs[i].sentCount = 0 /\ recalcs[i].recvCount = 0) =>
              recalcs[i].tier = "GHOST"

\* C27 happens: the same counters were recalculated with 0 and with 14
\* elapsed days, and the scores stored are not 0.
C27_Witness ==
    \E i \in Stored : \E j \in Stored :
        /\ SameCounters(recalcs[i], recalcs[j])
        /\ recalcs[i].days = 0 /\ recalcs[j].days = 14
        /\ recalcs[i].score > 0 /\ recalcs[j].score > 0

C29_ScoreInUnitInterval ==
    \A n \in Ident : \A p \in DOMAIN bonds[n] :
        /\ bonds[n][p].trust.careScore >= 0
        /\ bonds[n][p].trust.careScore <= 1000

\* C29 happens: a bond with more interactions than the frequency window
\* counts and an answer that took two hours was recalculated: frequency is
\* held at 1, responsiveness above 0, and the score stored is in range.
C29_Witness ==
    \E i \in Stored :
        LET e == recalcs[i]
            trust == bonds[e.node][e.peerId].trust
        IN  /\ i = Len(recalcs)
            /\ e.sentCount + e.recvCount > 140
            /\ \E k \in 1..Len(e.responseTimesMs) : e.responseTimesMs[k] > 3600000
            /\ trust.components.frequency = 1000
            /\ trust.careScore = e.score /\ e.score > 0 /\ e.score <= 1000

\* C30: a node whose initiate or accept call was refused with
\* TOPOLOGY_VIOLATION has emitted a TOPOLOGY_VIOLATION event.
C30_TopologyViolationEmitted ==
    \A c \in Calls :
        (calls[c].kind \in {"initiate", "accept"} /\ calls[c].err = "TOPOLOGY_VIOLATION") =>
            CountType(events[calls[c].node], "TOPOLOGY_VIOLATION") >= 1

\* C31: deserializeStateUpdate(serializeStateUpdate(m)) = m for every state
\* update m with key sequence and state bytes in 0..255 and a timestamp
\* anywhere in 0..2^32 - 1.
C31_StateRoundTrip ==
    (codec.kind = "state" /\ codec.pc = "parsed") => codec.output = codec.input

\* The same for timestamps below 2^31.
C31_StateRoundTripBelowSignBit ==
    (codec.kind = "state" /\ codec.pc = "parsed"
        /\ codec.input.stateData.timestamp.hi < 32768) => codec.output = codec.input

\* C32: deserializeVaultFragment(serializeVaultFragment(f)) has the
\* layerIndex, sequence.current, sequence.total and payload of f, for every
\* f with sequence.current and sequence.total in 0..255.
C32_VaultRoundTrip ==
    (codec.kind = "vault" /\ codec.pc = "parsed") =>
        /\ codec.output.layerIndex = codec.input.layerIndex
        /\ codec.output.sequence.current = codec.input.sequence.current
        /\ codec.output.sequence.total = codec.input.sequence.total
        /\ codec.output.payload = codec.input.payload

\* C32 happens: a fragment whose sequence numbers both need the high half,
\* with a payload, has been serialized and parsed.
C32_Witness ==
    /\ codec.kind = "vault" /\ codec.pc = "parsed"
    /\ codec.input.sequence.current = 200 /\ codec.input.sequence.total = 255
    /\ codec.input.payload = <<1, 2, 3>>
    /\ Len(codec.buffer) = 7

\* C33: the bond map of a NodeZero node never has more than 4 entries, also
\* while several initiateBond calls toward distinct peers are in flight.
C33_NodeAtMostFourBonds == Cardinality(DOMAIN node.bonds) <= NodeMaxBonds

\* The same for calls made one after the other: a call that finds 4 bonds at
\* its check stores nothing.
C33_FullNodeRefuses ==
    [][\A p \in Discovered :
          (/\ p \in DOMAIN node.flights /\ node.flights[p] = "derive"
           /\ node'.flights[p] # "derive"
           /\ Cardinality(DOMAIN node.bonds) >= NodeMaxBonds)
          => node'.flights[p] \in {"null", "existing"}]_vars

\* C34: an existing bond record is never overwritten by the completion of
\* another handshake: in every step, for every peer P a node holds a record
\* for, no BOND_FORMED for P is emitted, and if the record is still there after
\* the step its shared secret is the same and the counters of P are not put
\* back to those of a new bond.
C34_NoOverwrite ==
    [][\A n \in Ident : \A p \in DOMAIN bonds[n] :
          LET formed == [type |-> "BOND_FORMED", peer |-> p]
          IN  /\ CopiesIn(formed, events'[n]) = CopiesIn(formed, events[n])
              /\ p \in DOMAIN bonds'[n] =>
                    bonds'[n][p].channel.sharedSecret = bonds[n][p].channel.sharedSecret
              /\ (p \in DOMAIN interactions[n] /\ p \in DOMAIN interactions'[n]
                    /\ interactions[n][p] # NewInteraction) =>
                    interactions'[n][p] # NewInteraction]_vars

\* C35: a wait leaves the pending-response table only through a matching
\* inbound message or through its own timeout: in every step that removes a
\* key, the call whose wait was registered under it is the one that resumes,
\* with the message or with NEGOTIATION_TIMEOUT.  In particular the timeout
\* of an earlier wait under the key does not remove a later one.
C35_WaitRemovedByOwner ==
    [][\A n \in Ident : \A k \in DOMAIN pending[n] :
          k \notin DOMAIN pending'[n] =>
              LET d == pending[n][k]
              IN  \/ calls'[d].pc = GotPc(calls[d].pc)
                  \/ calls'[d].pc = "failed" /\ calls'[d].err = "NEGOTIATION_TIMEOUT"]_vars

\* The same where no two waits of a node share a key.
C35_WaitRemovedByOwnerOneWaitPerKey ==
    [][(\A c, d \in Calls :
           (/\ c # d /\ calls[c].node = calls[d].node
            /\ calls[c].kind \in {"initiate", "accept"}
            /\ calls[d].kind \in {"initiate", "accept"})
           => ~(calls[c].kind = calls[d].kind /\ calls[c].peer = calls[d].peer))
       => \A n \in Ident : \A k \in DOMAIN pending[n] :
             k \notin DOMAIN pending'[n] =>
                 LET d == pending[n][k]
                 IN  \/ calls'[d].pc = GotPc(calls[d].pc)
                     \/ calls'[d].pc = "failed" /\ calls'[d].err = "NEGOTIATION_TIMEOUT"]_vars

\* C36: once close(P) has returned on a node, no message sealed under the
\* secret of the closed bond is handed to the receive listeners of that node
\* and no BOND_MESSAGE_RECEIVED is emitted for it, also when its frame was
\* being decrypted at the time of the close.
C36_NothingDispatchedAfterClose ==
    [][\A c \in Calls :
          (calls[c].kind = "close" /\ calls[c].pc = "done") =>
              \A d \in decrypting \ decrypting' :
                  (/\ d.node = calls[c].node /\ d.peerId = PeerId(c)
                   /\ PeerId(c) \notin DOMAIN bonds[d.node]) =>
                      /\ received'[d.node] = received[d.node]
                      /\ events'[d.node] = events[d.node]]_vars

\* The same for frames that arrive after the close: they are dropped.
C36_DroppedWhenArrivingAfterClose ==
    [][\A c \in Calls : \A e \in net \ net' :
          (/\ calls[c].kind = "close" /\ calls[c].pc = "done"
           /\ e.dst = calls[c].node /\ e.frame.type = BOND_DATA
           /\ bonds[e.dst] = EmptyMap) =>
              /\ decrypting' = decrypting
              /\ received' = received /\ events' = events]_vars

\* C37: on the broadcast medium, a node that completes accept(A) has done so
\* on a BondConfirm that an initiate call of A toward that very node sent: a
\* third node C that called accept(A) gets no bond record for A out of the
\* handshake A runs with B.
C37_OnlyTheTargetAccepts ==
    /\ \A c \in Calls :
          (calls[c].kind = "accept" /\ calls[c].pc = "done") =>
              \E s \in sent :
                  /\ s.frame = calls[c].rx[2]
                  /\ calls[s.by].kind = "initiate"
                  /\ calls[s.by].node = "A"
                  /\ calls[s.by].peer = PublicKey(calls[c].node)
    /\ ~HasBond("C", "A")

\* C37 happens: C, waiting in accept(A), has been handed the BondConfirm A
\* sent to B, whole and as sent, and has refused it, while B holds its bond.
C37_Witness ==
    /\ HasBond("B", "A")
    /\ \E c \in Calls :
          /\ calls[c].node = "C" /\ calls[c].kind = "accept"
          /\ calls[c].pc = "failed" /\ calls[c].err = "VERIFICATION_FAILED"
          /\ Len(calls[c].rx) = 2
          /\ \E s \in sent : s.frame = calls[c].rx[2] /\ calls[s.by].node = "A"

\* C38: in every reachable state every bond has its interaction counters,
\* and its channel.totalExchanges is the sent counter plus the received one.
C38_ExchangesAreSentPlusReceived ==
    \A n \in Ident : \A p \in DOMAIN bonds[n] :
        /\ p \in DOMAIN interactions[n]
        /\ bonds[n][p].channel.totalExchanges =
              interactions[n][p].sentCount + interactions[n][p].recvCount

\* C38 happens: after a handshake a message has gone over the bond, counted
\* once by the sender as sent and once by the receiver as received.
C38_Witness ==
    /\ HasBond("A", "B") /\ HasBond("B", "A")
    /\ BondOf("A", "B").channel.totalExchanges = 1
    /\ interactions["A"][NodeIdOf("B")].sentCount = 1
    /\ BondOf("B", "A").channel.totalExchanges = 1
    /\ interactions["B"][NodeIdOf("A")].recvCount = 1

\* C39: the score updateCareScore(P, d) stores depends on the interaction
\* counters and on d alone: it is the score any earlier call with the same
\* counters and the same d stored, whatever score the record held before (the
\* decay does not compound).  A call that follows a call with the same d, with
\* no message counted in between, stores the same score and tier and emits no
\* BOND_TRUST_CHANGED.
C39_RecalculationRepeats ==
    [][\A n \in Ident : \A p \in DOMAIN bonds[n] :
          (Recalculates(n, p) /\ recalcs'[Len(recalcs')].outcome = "ok") =>
              LET e == recalcs'[Len(recalcs')]
              IN  /\ \A i \in 1..Len(recalcs) :
                        (/\ recalcs[i].outcome = "ok"
                         /\ SameCounters(recalcs[i], e)
                         /\ recalcs[i].days = e.days) => e.score = recalcs[i].score
                  /\ (/\ Len(recalcs) > 0
                      /\ recalcs[Len(recalcs)].outcome = "ok"
                      /\ SameCounters(recalcs[Len(recalcs)], e)
                      /\ recalcs[Len(recalcs)].days = e.days) =>
                        /\ bonds'[n][p].trust.careScore = bonds[n][p].trust.careScore
                        /\ bonds'[n][p].trust.tier = bonds[n][p].trust.tier
                        /\ CountType(events'[n], "BOND_TRUST_CHANGED")
                             = CountType(events[n], "BOND_TRUST_CHANGED")]_vars

\* C39 happens: two calls in a row with the same elapsed days (more than 0)
\* on the same counters; the first changed the score the record held and its
\* tier, the second stored the same score and tier again.
C39_Witness ==
    /\ Len(recalcs) = 2
    /\ recalcs[1].outcome = "ok" /\ recalcs[2].outcome = "ok"
    /\ SameCounters(recalcs[1], recalcs[2])
    /\ recalcs[1].days = recalcs[2].days /\ recalcs[1].days > 0
    /\ recalcs[1].score # InitialScore
    /\ recalcs[1].tier # recalcs[1].previousTier
    /\ recalcs[2].score = recalcs[1].score
    /\ recalcs[2].tier = recalcs[1].tier
    /\ CountType(events[recalcs[1].node], "BOND_TRUST_CHANGED") = 1

\* The stored score is 0.3 * frequency + 0.3 * reciprocity + 0.2 * consistency
\* + 0.2 * responsiveness of the stored components, all cut to thousandths.
WeightedSum(trust) ==
    LET w == 3 * trust.components.frequency + 3 * trust.components.reciprocity
               + 2 * trust.components.consistency + 2 * trust.components.responsiveness
    IN  10 * trust.careScore - w \in -9..9

\* C40: in every bond record no decay has been applied to (a record as
\* created, or one whose latest updateCareScore call had 0 elapsed days) the
\* stored careScore is the weighted sum of the components stored with it.
C40_ScoreIsWeightedSum ==
    \A n \in Ident : \A p \in DOMAIN bonds[n] :
        (BondLog(n, p) = <<>> \/ BondLog(n, p)[Len(BondLog(n, p))].days = 0) =>
            WeightedSum(bonds[n][p].trust)

\* The same for the records updateCareScore has written.
C40_ScoreIsWeightedSumAfterRecalculation ==
    \A n \in Ident : \A p \in DOMAIN bonds[n] :
        (BondLog(n, p) # <<>> /\ BondLog(n, p)[Len(BondLog(n, p))].days = 0) =>
            WeightedSum(bonds[n][p].trust)

====
